---------------------------- MODULE Spec2Model ----------------------------
(***************************************************************************)
(* Verification model of the Thalamus segment store                        *)
(* (examples/thalamus_system/core/database.py) and of the refinement       *)
(* driver contract that commits through it.                                *)
(*                                                                         *)
(* The store is an SQLite file shared by short-lived connections.  A       *)
(* write statement opens an implicit transaction that holds the database   *)
(* write lock until COMMIT; what it wrote is invisible to every other      *)
(* connection until then.  A multi-statement transaction is therefore one  *)
(* action of the model (from the first write to the COMMIT); the nested    *)
(* get_or_create_session call, which uses and commits its own connection,  *)
(* is made of separate steps.                                              *)
(*                                                                         *)
(* Text is a sequence of one-character strings, so that json.loads, int()  *)
(* and str.strip() are computed, not assumed.  REAL columns are held in    *)
(* tenths (an integer); TIMESTAMP columns are not modelled.                *)
(***************************************************************************)
EXTENDS Integers, Sequences, FiniteSets, TLC

(***************************************************************************)
(* Text helpers                                                            *)
(***************************************************************************)
Digits == <<"0", "1", "2", "3", "4", "5", "6", "7", "8", "9">>

IsDigit(c) == \E i \in 1..10 : Digits[i] = c

DigitVal(c) == (CHOOSE i \in 1..10 : Digits[i] = c) - 1

IsSpace(c) == c \in {" ", "\t", "\n", "\r"}

RECURSIVE LStrip(_)
LStrip(s) == IF s # <<>> /\ IsSpace(Head(s)) THEN LStrip(Tail(s)) ELSE s

RECURSIVE RStrip(_)
RStrip(s) ==
    IF s # <<>> /\ IsSpace(s[Len(s)]) THEN RStrip(SubSeq(s, 1, Len(s) - 1)) ELSE s

\* str.strip()
Strip(s) == RStrip(LStrip(s))

\* str(n) for an integer n
RECURSIVE NatToStr(_)
NatToStr(n) == IF n < 10 THEN <<Digits[n + 1]>>
               ELSE NatToStr(n \div 10) \o <<Digits[(n % 10) + 1]>>

IntToStr(n) == IF n < 0 THEN <<"-">> \o NatToStr(0 - n) ELSE NatToStr(n)

\* index of the first position >= i of s that holds no digit
RECURSIVE SkipDigits(_, _)
SkipDigits(s, i) == IF i <= Len(s) /\ IsDigit(s[i]) THEN SkipDigits(s, i + 1) ELSE i

RECURSIVE SkipSpace(_, _)
SkipSpace(s, i) == IF i <= Len(s) /\ IsSpace(s[i]) THEN SkipSpace(s, i + 1) ELSE i

\* value of the digit string s[i..j-1]
RECURSIVE DigitsVal(_, _, _)
DigitsVal(s, i, j) == IF i >= j THEN 0
                      ELSE DigitsVal(s, i, j - 1) * 10 + DigitVal(s[j - 1])

\* TRUE iff some digit of s[i..j-1] is not "0"
NonZeroIn(s, i, j) == \E k \in i..(j - 1) : s[k] # "0"

(***************************************************************************)
(* Python values that reach the usage insert.  One record shape for all:   *)
(*   t     "int" | "float" | "str" | "null" | "bool" | "list"              *)
(*   n     the integer (int, bool), the integral part (float)              *)
(*   frac  a float with a non-zero fractional part                         *)
(*   s     the characters of a str                                         *)
(*   items the elements of a list                                          *)
(***************************************************************************)
PyInt(n) == [t |-> "int", n |-> n, frac |-> FALSE, s |-> <<>>, items |-> <<>>]
PyFloat(n, f) == [t |-> "float", n |-> n, frac |-> f, s |-> <<>>, items |-> <<>>]
PyStr(s) == [t |-> "str", n |-> 0, frac |-> FALSE, s |-> s, items |-> <<>>]
PyNone == [t |-> "null", n |-> 0, frac |-> FALSE, s |-> <<>>, items |-> <<>>]
PyBool(b) == [t |-> "bool", n |-> IF b THEN 1 ELSE 0, frac |-> FALSE, s |-> <<>>, items |-> <<>>]
PyList(xs) == [t |-> "list", n |-> 0, frac |-> FALSE, s |-> <<>>, items |-> xs]

\* result of a parse step: ok, the value, the index after it
POk(v, i) == [ok |-> TRUE, v |-> v, i |-> i]
PFail == [ok |-> FALSE, v |-> PyNone, i |-> 0]

HasAt(s, i, w) == /\ i + Len(w) - 1 <= Len(s)
                  /\ \A k \in 1..Len(w) : s[i + k - 1] = w[k]

\* JSON number at s[i]: -? (0 | [1-9][0-9]*) (. [0-9]+)?
ParseNumber(s, i) ==
    LET neg == i <= Len(s) /\ s[i] = "-"
        a   == IF neg THEN i + 1 ELSE i
        b   == IF a <= Len(s) /\ s[a] = "0" THEN a + 1 ELSE SkipDigits(s, a)
        n   == DigitsVal(s, a, b)
        sn  == IF neg THEN 0 - n ELSE n
    IN  IF b = a THEN PFail
        ELSE IF b <= Len(s) /\ s[b] = "."
             THEN LET c == SkipDigits(s, b + 1)
                  IN  IF c = b + 1 THEN PFail
                      ELSE POk(PyFloat(sn, NonZeroIn(s, b + 1, c)), c)
             ELSE POk(PyInt(sn), b)

\* JSON string at s[i] = "\"" (no escapes): the index of the closing quote, or 0
RECURSIVE CloseQuote(_, _)
CloseQuote(s, i) == IF i > Len(s) THEN 0
                    ELSE IF s[i] = "\"" THEN i ELSE CloseQuote(s, i + 1)

ParseString(s, i) ==
    LET j == CloseQuote(s, i + 1)
    IN  IF j = 0 THEN PFail ELSE POk(PyStr(SubSeq(s, i + 1, j - 1)), j + 1)

RECURSIVE ParseValue(_, _)
RECURSIVE ValueAt(_, _)
RECURSIVE ParseElems(_, _, _)
RECURSIVE ElemsNext(_, _, _)

\* json.loads: the value that starts at s[i0], leading white space skipped.
\* The texts are over digits, white space, sign, ".", ",", brackets, quotes
\* and letters: no object, escape or exponent occurs in them.
ParseValue(s, i0) == ValueAt(s, SkipSpace(s, i0))

ValueAt(s, i) ==
    IF i > Len(s) THEN PFail
    ELSE IF s[i] = "[" THEN
             LET j == SkipSpace(s, i + 1)
             IN  IF j <= Len(s) /\ s[j] = "]" THEN POk(PyList(<<>>), j + 1)
                 ELSE ParseElems(s, i + 1, <<>>)
    ELSE IF s[i] = "\"" THEN ParseString(s, i)
    ELSE IF HasAt(s, i, <<"n", "u", "l", "l">>) THEN POk(PyNone, i + 4)
    ELSE IF HasAt(s, i, <<"t", "r", "u", "e">>) THEN POk(PyBool(TRUE), i + 4)
    ELSE IF HasAt(s, i, <<"f", "a", "l", "s", "e">>) THEN POk(PyBool(FALSE), i + 5)
    ELSE IF s[i] = "-" \/ IsDigit(s[i]) THEN ParseNumber(s, i)
    ELSE PFail

\* the elements of an array after "[" or ",", up to and including "]"
ParseElems(s, i, acc) == ElemsNext(s, acc, ParseValue(s, i))

\* r is the element just parsed: "]" ends the array, "," continues it
ElemsNext(s, acc, r) ==
    IF ~r.ok THEN PFail
    ELSE LET j == SkipSpace(s, r.i)
         IN  IF j > Len(s) THEN PFail
             ELSE IF s[j] = "]" THEN POk(PyList(Append(acc, r.v)), j + 1)
             ELSE IF s[j] = "," THEN ParseElems(s, j + 1, Append(acc, r.v))
             ELSE PFail

\* r is the value parsed at the start of s: nothing but white space may follow
WholeText(s, r) == IF r.ok /\ SkipSpace(s, r.i) = Len(s) + 1 THEN r ELSE PFail

\* json.loads(s): ok = FALSE is json.JSONDecodeError
JsonLoads(s) == WholeText(s, ParseValue(s, 1))

\* A numeric literal that fills the stripped text s:  [+-]? digit+ (. digit*)?
\* ok, the integral part n, frac = a non-zero fractional part, dot = a "." is present
NumText(s) ==
    LET sgn == s # <<>> /\ s[1] \in {"+", "-"}
        a   == IF sgn THEN 2 ELSE 1
        b   == SkipDigits(s, a)
        dot == b <= Len(s) /\ s[b] = "."
        c   == IF dot THEN SkipDigits(s, b + 1) ELSE b
    IN  [ok   |-> b > a /\ c = Len(s) + 1,
         n    |-> IF sgn /\ s[1] = "-" THEN 0 - DigitsVal(s, a, b) ELSE DigitsVal(s, a, b),
         frac |-> dot /\ NonZeroIn(s, b + 1, c),
         dot  |-> dot]

\* the numeric reading of a text, white space around it ignored
ParseNumText(s) == NumText(Strip(s))

\* r is the numeric reading of the text: int() takes digits only
IntOfNum(r) == [ok |-> r.ok /\ ~r.dot, n |-> r.n]

\* int(s) of a str: ok = FALSE is ValueError
PyIntOfStr(s) == IntOfNum(ParseNumText(s))

(***************************************************************************)
(* Bounds and input domains                                                *)
(***************************************************************************)
MaxSessions == 2
MaxRaw == 2
MaxRefined == 2
MaxFailures == 1

Threads == {1, 2}

\* the external session ids "s1", "s2", ...
ExtId(i) == <<"s", Digits[i + 1]>>
S1 == ExtId(1)
S2 == ExtId(2)
ExtIds == {ExtId(i) : i \in 1..MaxSessions}

(***************************************************************************)
(* State                                                                   *)
(***************************************************************************)
VARIABLES
    sessions,          \* table sessions(id, session_id UNIQUE)
    speakers,          \* table speakers(id, name)
    raw_segments,      \* table raw_segments(id, session_id, speaker_id, text, start_time, end_time)
    refined_segments,  \* table refined_segments(id, session_id, ..., is_processing, is_locked)
    segment_usage,     \* table segment_usage(raw_segment_id PRIMARY KEY, refined_segment_id)
    pc,                \* per caller: the statement it is about to execute
    loc,               \* per caller: the arguments and locals of the call in progress
    ret,               \* per caller: the outcome of its last completed call
    driver,            \* per session: the refinement driver's state
    schema,            \* the tables and indexes of the store, the declared type of
                       \* the session_id columns, the is_locked column
    db                 \* the database file: the lock another connection holds on
                       \* it, the connections that are open on it

tables == <<sessions, speakers, raw_segments, refined_segments, segment_usage>>
vars == <<sessions, speakers, raw_segments, refined_segments, segment_usage,
          pc, loc, ret, driver, schema, db>>

\* no lock held by another connection, no connection open
Unlocked == [lock |-> "none", open |-> 0]

\* the stored value of a nullable TEXT column
SqlNull == PyNone
SqlText(s) == PyStr(s)

\* the truth value of a Python value (if source_segments:, if not session_id)
Truthy(v) ==
    CASE v.t = "null" -> FALSE
      [] v.t = "str" -> v.s # <<>>
      [] v.t = "list" -> v.items # <<>>
      [] v.t = "float" -> v.n # 0 \/ v.frac
      [] OTHER -> v.n # 0

\* sqlite3 binding a Python value to a TEXT column (source_segments, name):
\* a list (tuple, dict) is sqlite3.ProgrammingError, an int is stored as its text
BindText(v) ==
    CASE v.t = "null" -> [ok |-> TRUE, v |-> SqlNull]
      [] v.t = "str" -> [ok |-> TRUE, v |-> SqlText(v.s)]
      [] v.t \in {"int", "bool"} -> [ok |-> TRUE, v |-> SqlText(IntToStr(v.n))]
      [] OTHER -> [ok |-> FALSE, v |-> SqlNull]

SetMax(S) == CHOOSE x \in S : \A y \in S : y <= x

\* mutant: the statement replaces the rows of the table
TruncateInsert(table, row) == {row}

\* INSERT INTO sessions / speakers / raw_segments: the table with the new row
InsertInto(table, row) == table \cup {row}

\* INTEGER PRIMARY KEY AUTOINCREMENT: one more than the largest id ever used
\* (no statement of the store deletes a row)
NextId(table) == IF table = {} THEN 1 ELSE SetMax({r.id : r \in table}) + 1

\* the arguments and locals of a call; NoArgs when no call is in progress
NoArgs == [op |-> "none", sref |-> PyNone, pk |-> 0, speaker |-> 0, text |-> <<>>,
           start_time |-> 0, end_time |-> 0, confidence_score |-> 0,
           source_segments |-> PyNone, metadata |-> PyNone, is_processing |-> 0,
           kw |-> <<>>, hint |-> PyNone, name |-> PyNone]

NoRet == [op |-> "none", status |-> "none", val |-> 0]

\* the call in progress of caller t returns v / raises
Return(t, v) ==
    /\ pc' = [pc EXCEPT ![t] = "idle"]
    /\ loc' = [loc EXCEPT ![t] = NoArgs]
    /\ ret' = [ret EXCEPT ![t] = [op |-> loc[t].op, status |-> "ok", val |-> v]]

Raise(t) ==
    /\ pc' = [pc EXCEPT ![t] = "idle"]
    /\ loc' = [loc EXCEPT ![t] = NoArgs]
    /\ ret' = [ret EXCEPT ![t] = [op |-> loc[t].op, status |-> "error", val |-> 0]]

\* caller t enters a call with the arguments args at statement first
Start(t, args, first) ==
    /\ pc[t] = "idle"
    /\ pc' = [pc EXCEPT ![t] = first]
    /\ loc' = [loc EXCEPT ![t] = args]
    /\ ret' = [ret EXCEPT ![t] = NoRet]

\* a call from outside the refinement driver
Call(t, args, first) == Start(t, args, first) /\ UNCHANGED <<tables, driver, schema, db>>

\* calls of op that have not yet returned
InFlight(op) == Cardinality({t \in Threads : loc[t].op = op})

(***************************************************************************)
(* Read-path queries                                                       *)
(***************************************************************************)
\* get_used_segment_ids: SELECT raw_segment_id FROM segment_usage
GetUsedSegmentIds == {u.raw_segment_id : u \in segment_usage}

\* refined_segments r JOIN sessions se ON r.session_id = se.id
RefinedJoin ==
    {[id |-> p[1].id, session_id |-> p[2].session_id,
      refined_speaker_id |-> p[1].refined_speaker_id, text |-> p[1].text,
      start_time |-> p[1].start_time, end_time |-> p[1].end_time,
      confidence_score |-> p[1].confidence_score,
      source_segments |-> p[1].source_segments, metadata |-> p[1].metadata,
      is_processing |-> p[1].is_processing, is_locked |-> p[1].is_locked] :
        p \in {q \in refined_segments \X sessions : q[1].session_id = q[2].id}}

\* get_refined_segments(session_id): the rows of the result
GetRefinedSegments(e) == {v \in RefinedJoin : v.session_id = e}

\* mutant: the rows come in the order of their ids
OrderedById(rows) ==
    {q \in [1..Cardinality(rows) -> rows] :
        \A i, j \in DOMAIN q : i < j => q[i].id < q[j].id}

\* the orders ORDER BY r.start_time allows: rows of equal start_time come in
\* an order the query does not fix
OrderedByStartTime(rows) ==
    {q \in [1..Cardinality(rows) -> rows] :
        /\ \A i, j \in DOMAIN q : i < j => q[i] # q[j]
        /\ \A i, j \in DOMAIN q : i < j => q[i].start_time <= q[j].start_time}

\* get_refined_segments(session_id): the results the call can return; a
\* session_id that is None or empty applies no filter (line 652)
ListRefinedSegments(sid) ==
    OrderedByStartTime(IF Truthy(sid)
                       THEN {v \in RefinedJoin : v.session_id = BindText(sid).v.s}
                       ELSE RefinedJoin)

\* the dict get_refined_segment builds from the selected row (lines 749-759)
SegmentDict(v) ==
    [id |-> v.id, session_id |-> v.session_id,
     refined_speaker_id |-> v.refined_speaker_id, text |-> v.text,
     start_time |-> v.start_time, end_time |-> v.end_time,
     confidence_score |-> v.confidence_score,
     source_segments |-> v.source_segments, metadata |-> v.metadata]

\* get_refined_segment(segment_id): the dict of the row, or nothing (None)
\* when the join selects no row
GetRefinedSegment(id) == {SegmentDict(v) : v \in {x \in RefinedJoin : x.id = id}}

\* WHERE se.session_id = ? AND r.is_locked = 1
LockedRows(e) == {v \in RefinedJoin : v.session_id = e /\ v.is_locked = 1}

\* the orders ORDER BY r.start_time DESC allows: rows of equal start_time
\* come in an order the query does not fix
Descending(rows) ==
    {q \in [1..Cardinality(rows) -> rows] :
        /\ \A i, j \in DOMAIN q : i < j => q[i] # q[j]
        /\ \A i, j \in DOMAIN q : i < j => q[i].start_time >= q[j].start_time}

\* mutant: the cap is applied to the rows in ascending order
LimitedFromOldest(q, limit) ==
    IF Truthy(limit) /\ limit.n >= 0 /\ limit.n < Len(q)
    THEN SubSeq(q, Len(q) - limit.n + 1, Len(q)) ELSE q

\* lines 683-687: LIMIT ? is added when limit is truthy (not None, not 0); a
\* negative LIMIT does not cap
Limited(q, limit) ==
    IF Truthy(limit) /\ limit.n >= 0 /\ limit.n < Len(q)
    THEN SubSeq(q, 1, limit.n) ELSE q

\* get_locked_segments(session_id, limit): the results the call can return
GetLockedSegments(e, limit) == {Limited(q, limit) : q \in Descending(LockedRows(e))}

\* the row get_unrefined_segments selects from a joined triple
RawView(rs, se, sp) ==
    [id |-> rs.id, session_id |-> se.session_id, speaker_id |-> rs.speaker_id,
     text |-> rs.text, start_time |-> rs.start_time, end_time |-> rs.end_time,
     speaker_name |-> sp.name]

\* mutant: segments that have a usage record are left out
RawJoinUnusedOnly ==
    {RawView(p[1], p[2], p[3]) :
        p \in {q \in raw_segments \X sessions \X speakers :
                  /\ q[1].session_id = q[2].id /\ q[1].speaker_id = q[3].id
                  /\ q[1].id \notin GetUsedSegmentIds}}

\* lines 519-533: raw_segments rs JOIN sessions se ON rs.session_id = se.id
\* JOIN speakers sp ON rs.speaker_id = sp.id, usage not looked at
RawJoin ==
    {RawView(p[1], p[2], p[3]) :
        p \in {q \in raw_segments \X sessions \X speakers :
                  q[1].session_id = q[2].id /\ q[1].speaker_id = q[3].id}}

\* mutant: without a session filter nothing is returned
GetUnrefinedSegmentsFilteredOnly(sid) ==
    IF Truthy(sid) THEN {v \in RawJoin : v.session_id = BindText(sid).v.s} ELSE {}

\* get_unrefined_segments(session_id): the rows of the result; a session_id
\* that is None or empty applies no filter (line 536)
GetUnrefinedSegments(sid) ==
    IF Truthy(sid) THEN {v \in RawJoin : v.session_id = BindText(sid).v.s}
    ELSE RawJoin

\* NOT IN (SELECT raw_segment_id FROM segment_usage)
Unused(id) == id \notin {u.raw_segment_id : u \in segment_usage}

\* get_active_sessions: the external ids of the result
GetActiveSessions ==
    {se.session_id : se \in
        {x \in sessions : \E rs \in raw_segments :
            rs.session_id = x.id /\ Unused(rs.id)}}

(***************************************************************************)
(* get_or_create_session, also as the nested call of insert_segment and    *)
(* insert_refined_segment (loc[t].op names the outer call)                 *)
(***************************************************************************)
\* mutant: only the empty string is refused
IsBlankIdEmptyOnly(sid) == sid.t = "str" /\ sid.s = <<>>

\* not session_id or not session_id.strip()
IsBlankId(sid) == ~Truthy(sid) \/ (sid.t = "str" /\ Strip(sid.s) = <<>>)

\* mutant: the lookup ignores the external id
SelectAnySessionId(e) == {se.id : se \in sessions}

\* SELECT id FROM sessions WHERE session_id = ?
SelectSessionId(e) == {se.id : se \in {x \in sessions : x.session_id = e}}

\* the key is known: get_or_create_session returns it, an outer call goes on
\* to its own INSERT, process_event to its segments
AfterSession(t, k) ==
    IF loc[t].op = "get_or_create_session" THEN Return(t, k)
    ELSE /\ pc' = [pc EXCEPT ![t] = IF loc[t].op = "insert_segment" THEN "insert_raw"
                                    ELSE IF loc[t].op = "process_event"
                                         THEN "event_segment" ELSE "insert_refined"]
         /\ loc' = [loc EXCEPT ![t].pk = k]
         /\ UNCHANGED ret

\* a caller starts get_or_create_session(sid)
GetOrCreateSession(t, sid) ==
    Call(t, [NoArgs EXCEPT !.op = "get_or_create_session", !.sref = sid],
         "session_lookup")

\* lines 455-464: the blank check (ValueError; a value that is not a str has
\* no strip, AttributeError) and the lookup
SessionLookup(t) ==
    /\ pc[t] = "session_lookup"
    /\ LET e == loc[t].sref.s
       IN  IF IsBlankId(loc[t].sref) \/ loc[t].sref.t # "str" THEN Raise(t)
           ELSE IF SelectSessionId(e) # {}
                THEN AfterSession(t, CHOOSE k \in SelectSessionId(e) : TRUE)
                ELSE /\ pc' = [pc EXCEPT ![t] = "session_insert"]
                     /\ UNCHANGED <<loc, ret>>
    /\ UNCHANGED <<tables, driver, schema, db>>

\* mutant: sessions.session_id without the UNIQUE constraint
SessionIdNeverTaken(e) == FALSE

\* the UNIQUE constraint of sessions.session_id
SessionIdTaken(e) == \E se \in sessions : se.session_id = e

\* lines 466-468: INSERT, commit, return lastrowid; a violated UNIQUE
\* constraint raises sqlite3.IntegrityError
SessionInsert(t) ==
    /\ pc[t] = "session_insert"
    /\ LET e == loc[t].sref.s
           k == NextId(sessions)
       IN  IF SessionIdTaken(e)
           THEN /\ UNCHANGED sessions
                /\ Raise(t)
           ELSE /\ sessions' = InsertInto(sessions, [id |-> k, session_id |-> e])
                /\ AfterSession(t, k)
    /\ UNCHANGED <<speakers, raw_segments, refined_segments, segment_usage, driver, schema, db>>

(***************************************************************************)
(* get_or_create_speaker                                                   *)
(***************************************************************************)
\* SELECT id FROM speakers WHERE name = ?, name the bound value: NULL equals
\* no name
SelectSpeakerId(name) ==
    {sp.id : sp \in {x \in speakers : name.t = "str" /\ x.name = name.s}}

\* a caller starts get_or_create_speaker(speaker_id, speaker_name)
GetOrCreateSpeaker(t, hint, name) ==
    Call(t, [NoArgs EXCEPT !.op = "get_or_create_speaker", !.hint = hint,
                           !.name = name], "speaker_lookup")

\* lines 475-479: the lookup by name; fetchone takes the first row, the one
\* with the least rowid; a name sqlite3 cannot bind raises
SpeakerLookup(t) ==
    /\ pc[t] = "speaker_lookup"
    /\ \E b \in {BindText(loc[t].name)} :
           IF ~b.ok THEN Raise(t)
           ELSE IF SelectSpeakerId(b.v) # {}
                THEN Return(t, CHOOSE k \in SelectSpeakerId(b.v) :
                                   \A j \in SelectSpeakerId(b.v) : k <= j)
                ELSE /\ pc' = [pc EXCEPT ![t] = "speaker_insert"]
                     /\ UNCHANGED <<loc, ret>>
    /\ UNCHANGED <<tables, driver, schema, db>>

\* lines 482-487: INSERT INTO speakers (name), commit, return lastrowid;
\* name is NOT NULL (line 96), a NULL raises sqlite3.IntegrityError
SpeakerInsert(t) ==
    /\ pc[t] = "speaker_insert"
    /\ \E b \in {BindText(loc[t].name)} :
           IF b.v = SqlNull
           THEN /\ UNCHANGED speakers
                /\ Raise(t)
           ELSE /\ speakers' = InsertInto(speakers,
                                           [id |-> NextId(speakers), name |-> b.v.s])
                /\ Return(t, NextId(speakers))
    /\ UNCHANGED <<sessions, raw_segments, refined_segments, segment_usage, driver, schema, db>>

(***************************************************************************)
(* insert_segment                                                          *)
(***************************************************************************)
\* lines 499-502, 582-585: isinstance(session_id, int) selects the key itself
\* (a bool is an int: True is the key 1), anything else goes through
\* get_or_create_session
CallWithSession(t, args, insert) ==
    IF args.sref.t \in {"int", "bool"}
    THEN Call(t, [args EXCEPT !.pk = args.sref.n], insert)
    ELSE Call(t, args, "session_lookup")

\* a caller starts insert_segment(sref, speaker, text, start_time, end_time, ts)
InsertSegment(t, sref, speaker, text, st, en) ==
    /\ Cardinality(raw_segments) + InFlight("insert_segment") < MaxRaw
    /\ CallWithSession(t, [NoArgs EXCEPT !.op = "insert_segment", !.sref = sref,
                                         !.speaker = speaker, !.text = text,
                                         !.start_time = st, !.end_time = en],
                       "insert_raw")

\* lines 504-510: INSERT INTO raw_segments, commit, return lastrowid
InsertRaw(t) ==
    /\ pc[t] = "insert_raw"
    /\ LET a == loc[t]
           k == NextId(raw_segments)
       IN  /\ raw_segments' = InsertInto(raw_segments,
                  [id |-> k, session_id |-> a.pk, speaker_id |-> a.speaker,
                   text |-> a.text, start_time |-> a.start_time,
                   end_time |-> a.end_time])
           /\ Return(t, k)
    /\ UNCHANGED <<sessions, speakers, refined_segments, segment_usage, driver, schema, db>>

(***************************************************************************)
(* insert_refined_segment                                                  *)
(***************************************************************************)
\* line 608-611: i is int(source_segments) after json.loads raised
IdsOfInt(i) == IF i.ok THEN <<PyInt(i.n)>> ELSE <<>>

\* mutant: a JSON list contributes its first element only
IdsOfJsonFirstOnly(j, text) ==
    IF j.ok THEN IF j.v.t = "list" THEN SubSeq(j.v.items, 1, 1) ELSE <<j.v>>
    ELSE IdsOfInt(PyIntOfStr(text))

\* lines 604-617: j is json.loads(source_segments); a value that is no list
\* is wrapped into one
IdsOfJson(j, text) ==
    IF j.ok THEN IF j.v.t = "list" THEN j.v.items ELSE <<j.v>>
    ELSE IdsOfInt(PyIntOfStr(text))

\* mutant: no raw id is taken from source_segments
RawIdsOfNone(src) == <<>>

\* lines 601-617: the raw ids the usage loop iterates over
RawIdsOf(src) ==
    IF ~Truthy(src) THEN <<>>
    ELSE IF src.t = "str" THEN IdsOfJson(JsonLoads(src.s), src.s)
    ELSE <<src>>

\* SQLite storing a text in an INTEGER PRIMARY KEY: r is its numeric reading
KeyOfNum(r) == IF r.ok /\ ~r.frac THEN [kind |-> "int", n |-> r.n]
               ELSE [kind |-> "mismatch", n |-> 0]

\* sqlite3 binding a Python value to the INTEGER PRIMARY KEY raw_segment_id:
\*   "int"  the key n          "auto"  NULL, SQLite picks the next rowid
\*   "mismatch"  IntegrityError: datatype mismatch
\*   "unsupported"  ProgrammingError: type is not supported
BindRawId(v) ==
    CASE v.t \in {"int", "bool"} -> [kind |-> "int", n |-> v.n]
      [] v.t = "null" -> [kind |-> "auto", n |-> 0]
      [] v.t = "float" -> IF v.frac THEN [kind |-> "mismatch", n |-> 0]
                          ELSE [kind |-> "int", n |-> v.n]
      [] v.t = "str" -> KeyOfNum(ParseNumText(v.s))
      [] OTHER -> [kind |-> "unsupported", n |-> 0]

\* the rowid SQLite assigns to a NULL INTEGER PRIMARY KEY
NextRowid(usage) == IF usage = {} THEN 1
                    ELSE SetMax({u.raw_segment_id : u \in usage}) + 1

\* mutant: segment_usage without its PRIMARY KEY, every INSERT adds a row
InsertUsageNoKey(usage, k, rid) ==
    usage \cup {[raw_segment_id |-> k, refined_segment_id |-> rid]}

\* mutant: INSERT OR REPLACE, the last refined segment takes the raw id over
InsertOrReplaceUsage(usage, k, rid) ==
    {u \in usage : u.raw_segment_id # k}
        \cup {[raw_segment_id |-> k, refined_segment_id |-> rid]}

\* INSERT OR IGNORE INTO segment_usage (raw_segment_id, refined_segment_id)
InsertOrIgnoreUsage(usage, k, rid) ==
    IF \E u \in usage : u.raw_segment_id = k THEN usage
    ELSE usage \cup {[raw_segment_id |-> k, refined_segment_id |-> rid]}

\* the key a bound value b takes in segment_usage
UsageKey(b, usage) == IF b.kind = "auto" THEN NextRowid(usage) ELSE b.n

RECURSIVE RecordUsage(_, _, _)

\* mutant: a plain INSERT, a raw id that is already claimed raises IntegrityError
InsertUsageStrict(raw_ids, usage, rid, b) ==
    IF b.kind \in {"mismatch", "unsupported"}
       \/ \E u \in usage : u.raw_segment_id = UsageKey(b, usage)
    THEN [usage |-> usage, ok |-> FALSE]
    ELSE RecordUsage(Tail(raw_ids),
                     InsertOrIgnoreUsage(usage, UsageKey(b, usage), rid), rid)

\* lines 620-623: the INSERT of the first id of raw_ids, bound as b, then the
\* rest of the loop; a value SQLite rejects raises
InsertUsage(raw_ids, usage, rid, b) ==
    IF b.kind \in {"mismatch", "unsupported"}
    THEN [usage |-> usage, ok |-> FALSE]
    ELSE RecordUsage(Tail(raw_ids),
                     InsertOrIgnoreUsage(usage, UsageKey(b, usage), rid), rid)

\* lines 619-623: the usage loop; ok = FALSE when an INSERT raised, usage is
\* what the statements before it wrote
RecordUsage(raw_ids, usage, rid) ==
    IF raw_ids = <<>> THEN [usage |-> usage, ok |-> TRUE]
    ELSE InsertUsage(raw_ids, usage, rid, BindRawId(Head(raw_ids)))

\* get_db lines 143-151: leaving the with block, also by an exception, commits
\* what the connection has written so far
ExitCommit(before, written) == written

\* the parameters of insert_refined_segment, lines 565-575
RefinedArgs(sref, speaker, text, st, en, conf, src, meta, proc) ==
    [NoArgs EXCEPT !.op = "insert_refined_segment",
                   !.sref = sref, !.speaker = speaker, !.text = text,
                   !.start_time = st, !.end_time = en,
                   !.confidence_score = conf, !.source_segments = src,
                   !.metadata = meta, !.is_processing = proc]

\* a caller starts insert_refined_segment(...)
InsertRefinedSegment(t, sref, speaker, text, st, en, conf, src, meta, proc) ==
    /\ Cardinality(refined_segments) + InFlight("insert_refined_segment") < MaxRefined
    /\ CallWithSession(t, RefinedArgs(sref, speaker, text, st, en, conf, src, meta, proc),
                       "insert_refined")

\* the refined_segments row of lines 588-596
RefinedRow(rid, a, stored) ==
    [id |-> rid, session_id |-> a.pk, refined_speaker_id |-> a.speaker,
     text |-> a.text, start_time |-> a.start_time, end_time |-> a.end_time,
     confidence_score |-> a.confidence_score, source_segments |-> stored,
     metadata |-> a.metadata, is_processing |-> a.is_processing, is_locked |-> 0]

\* lines 587-626 on the tables (refined, usage), b the bound source_segments
\* and u the outcome of the usage loop: a parameter that cannot be bound
\* raises before the row is written, a usage INSERT that raises leaves the
\* row and the records written before it to the commit of get_db
TxnOutcome(a, refined, usage, b, u) ==
    IF ~b.ok THEN [ok |-> FALSE, id |-> 0, refined |-> refined, usage |-> usage]
    ELSE IF u.ok
         THEN [ok |-> TRUE, id |-> NextId(refined),
               refined |-> refined \cup {RefinedRow(NextId(refined), a, b.v)},
               usage |-> u.usage]
         ELSE ExitCommit([ok |-> FALSE, id |-> 0, refined |-> refined, usage |-> usage],
                         [ok |-> FALSE, id |-> 0,
                          refined |-> refined \cup {RefinedRow(NextId(refined), a, b.v)},
                          usage |-> u.usage])

\* lines 587-629: the transaction of insert_refined_segment
RefinedTxn(a, refined, usage) ==
    TxnOutcome(a, refined, usage, BindText(a.source_segments),
               RecordUsage(RawIdsOf(a.source_segments), usage, NextId(refined)))

InsertRefined(t) ==
    /\ pc[t] = "insert_refined"
    /\ \E r \in {RefinedTxn(loc[t], refined_segments, segment_usage)} :
           /\ refined_segments' = r.refined
           /\ segment_usage' = r.usage
           /\ IF r.ok THEN Return(t, r.id) ELSE Raise(t)
    /\ UNCHANGED <<sessions, speakers, raw_segments, driver, schema, db>>

(***************************************************************************)
(* update_refined_segment                                                  *)
(***************************************************************************)
\* mutant: every keyword that names a column is written
AnyColumn == {"id", "session_id", "refined_speaker_id", "text", "start_time",
              "end_time", "confidence_score", "source_segments", "metadata",
              "is_processing", "is_locked"}

\* the whitelist of line 701
UpdatableFields == {"text", "start_time", "end_time", "confidence_score",
                    "source_segments", "metadata", "is_locked"}

\* the keywords of kw that lines 700-703 turn into assignments
UpdateFields(kw) == DOMAIN kw \cap UpdatableFields

\* sqlite3 binding the value of keyword f: the TEXT columns as BindText, text
\* as its characters, the numeric columns and is_locked (True is 1) as the
\* number
StoredAs(f, v) ==
    CASE f \in {"source_segments", "metadata"} -> BindText(v).v
      [] f = "text" -> v.s
      [] OTHER -> v.n

\* mutant: every value can be bound
AlwaysBindable(v) == TRUE

\* a list (tuple, dict) cannot be bound: sqlite3.ProgrammingError
Bindable(v) == v.t # "list"

\* UPDATE refined_segments SET <the whitelisted keys of kw> WHERE id = ?
ApplyUpdate(row, kw) ==
    [f \in DOMAIN row |-> IF f \in UpdateFields(kw)
                          THEN StoredAs(f, kw[f]) ELSE row[f]]

\* mutant: True only when the UPDATE has changed a row (cur.rowcount)
RowCountResult(id) == IF \E r \in refined_segments : r.id = id THEN 1 ELSE 0

\* line 720: return True once the UPDATE has been executed, whatever the
\* number of rows it matched (1 stands for True)
UpdateResult(id) == 1

\* a caller starts update_refined_segment(id, **kw)
UpdateRefinedSegment(t, id, kw) ==
    Call(t, [NoArgs EXCEPT !.op = "update_refined_segment", !.pk = id, !.kw = kw],
         "update_refined")

\* lines 693-724: no whitelisted key returns False; a value that cannot be
\* bound raises in execute, the handler of line 722 returns False; else
\* UPDATE, commit, True (0 and 1 stand for False and True)
UpdateRefined(t) ==
    /\ pc[t] = "update_refined"
    /\ LET a == loc[t]
       IN  IF UpdateFields(a.kw) = {} \/ \E f \in UpdateFields(a.kw) : ~Bindable(a.kw[f])
           THEN /\ UNCHANGED refined_segments
                /\ Return(t, 0)
           ELSE /\ refined_segments' =
                       {IF r.id = a.pk THEN ApplyUpdate(r, a.kw) ELSE r :
                            r \in refined_segments}
                /\ Return(t, UpdateResult(a.pk))
    /\ UNCHANGED <<sessions, speakers, raw_segments, segment_usage, driver, schema, db>>

(***************************************************************************)
(* The read-path queries as calls, and a storage that cannot be opened     *)
(***************************************************************************)
\* a caller starts one of the queries: sid the session argument, id the
\* segment id (get_refined_segment)
Query(t, op, sid, id) ==
    Call(t, [NoArgs EXCEPT !.op = op, !.sref = sid, !.pk = id], "query")

\* the value the query returns: a list as the set of its rows where the
\* order is not fixed, None as the empty set
QueryResults(op, sid, id) ==
    CASE op = "get_unrefined_segments" -> {GetUnrefinedSegments(sid)}
      [] op = "get_used_segment_ids" -> {GetUsedSegmentIds}
      [] op = "get_active_sessions" -> {GetActiveSessions}
      [] op = "get_refined_segment" -> {GetRefinedSegment(id)}
      [] op = "get_refined_segments" -> ListRefinedSegments(sid)
      [] OTHER -> GetLockedSegments(sid.s, PyNone)

\* the connection is there: the query runs and returns
QueryReturns(t) ==
    /\ pc[t] = "query"
    /\ \E r \in QueryResults(loc[t].op, loc[t].sref, loc[t].pk) : Return(t, r)
    /\ UNCHANGED <<tables, driver, schema, db>>

\* mutant: no operation has a handler that returns a default
DegradesNever == {}

\* mutant: every operation has a handler that returns a default
DegradesAlways == {"get_or_create_session", "get_or_create_speaker", "insert_segment",
                   "insert_refined_segment", "get_unrefined_segments",
                   "get_used_segment_ids", "get_active_sessions",
                   "get_refined_segment", "get_refined_segments",
                   "get_locked_segments"}

\* the operations whose except clause ends in handle_database_error with a
\* default_return of [] or None (lines 552, 563, 764, 788); the handler of
\* insert_refined_segment rethrows, the other operations have none
Degrades == {"get_unrefined_segments", "get_used_segment_ids",
             "get_active_sessions", "get_refined_segment"}

\* the next statement of caller t is the with get_db() of its call, or of
\* the get_or_create_session it nests: the insert statements are reached
\* with an open connection unless the session was given as a key
Connecting(t) ==
    \/ pc[t] \in {"query", "session_lookup", "speaker_lookup", "update_refined"}
    \/ pc[t] \in {"insert_raw", "insert_refined"} /\ loc[t].sref.t \in {"int", "bool"}

\* sqlite3.connect raises in get_db (line 61): the error leaves the with
\* statement; a default_return handler turns it into [] or None,
\* update_refined_segment into False (line 722), otherwise the caller gets it
ConnectFails(t) ==
    /\ Connecting(t)
    /\ IF loc[t].op \in Degrades THEN Return(t, {})
       ELSE IF loc[t].op = "update_refined_segment" THEN Return(t, 0)
       ELSE Raise(t)
    /\ UNCHANGED <<tables, driver, schema, db>>

(***************************************************************************)
(* init_db and migrate_database_schema                                     *)
(***************************************************************************)
CoreTables == {"sessions", "speakers", "raw_segments", "refined_segments",
               "segment_usage"}

\* the indexes of lines 223-236, by table
IndexesOf(table) ==
    CASE table = "raw_segments" ->
             {"idx_raw_segments_session_id", "idx_raw_segments_timestamp",
              "idx_raw_segments_speaker_id"}
      [] table = "refined_segments" ->
             {"idx_refined_segments_session_id", "idx_refined_segments_start_time",
              "idx_refined_segments_last_update"}
      [] OTHER ->
             {"idx_segment_usage_refined_segment_id", "idx_segment_usage_timestamp"}

AllIndexes ==
    IndexesOf("raw_segments") \cup IndexesOf("refined_segments")
        \cup IndexesOf("segment_usage")

\* the schema init_db leaves
Initialised == [tables |-> CoreTables, indexes |-> AllIndexes, raw |-> "INTEGER",
                refined |-> "INTEGER", is_locked |-> TRUE]

\* the store a call works on, and whether the call is still running
Store(ses, raw, refined, sch) ==
    [ok |-> TRUE, sessions |-> ses, raw |-> raw, refined |-> refined, schema |-> sch]

\* get_db, lines 82-136: CREATE TABLE IF NOT EXISTS for the five tables
Bootstrap(st) == [st EXCEPT !.schema.tables = @ \cup CoreTables]

\* mutant: the column is added whether or not the table has it
IsLockedAlwaysMissing(sch) == TRUE

\* mutant: the column is never added
IsLockedNeverMissing(sch) == FALSE

\* lines 302-304: 'is_locked' not in columns
IsLockedMissing(sch) == ~sch.is_locked

\* lines 300-306: ALTER TABLE refined_segments ADD COLUMN is_locked INTEGER
\* DEFAULT 0; adding a column the table has is sqlite3.OperationalError
AddIsLocked(st) ==
    IF ~st.ok \/ ~IsLockedMissing(st.schema) THEN st
    ELSE IF st.schema.is_locked THEN [st EXCEPT !.ok = FALSE]
    ELSE [st EXCEPT !.schema.is_locked = TRUE,
                    !.refined = {[f \in DOMAIN r \cup {"is_locked"} |->
                                     IF f = "is_locked" THEN 0 ELSE r[f]] : r \in @}]

\* lines 313-315, 378-380: col_type != 'INTEGER'
NeedsRebuild(type) == type # "INTEGER"

\* rs.session_id GLOB '[0-9]*': the text starts with a digit
GlobDigit(v) == v # <<>> /\ IsDigit(v[1])

\* CAST(rs.session_id AS INTEGER): the digits the text starts with
RECURSIVE CastDigits(_, _)
CastDigits(v, acc) ==
    IF v = <<>> \/ ~IsDigit(v[1]) THEN acc
    ELSE CastDigits(Tail(v), 10 * acc + DigitVal(v[1]))

CastInteger(v) == CastDigits(v, 0)

\* (SELECT s.id FROM sessions s WHERE s.session_id = rs.session_id)
SessionKeysOf(v, ses) == {se.id : se \in {x \in ses : x.session_id = v}}

\* lines 342-345, 412-415: COALESCE(the key of the session with that
\* external id, the integer the text starts with, NULL); the sessions table
\* exists at this point, get_db has created it
MappedKey(v, ses) ==
    IF SessionKeysOf(v, ses) # {}
    THEN [null |-> FALSE, n |-> CHOOSE k \in SessionKeysOf(v, ses) : TRUE]
    ELSE IF GlobDigit(v) THEN [null |-> FALSE, n |-> CastInteger(v)]
    ELSE [null |-> TRUE, n |-> 0]

\* INSERT INTO <table>_new ... SELECT: every row with its id and its other
\* columns, session_id mapped
CopyRows(rows, ses) ==
    {[r EXCEPT !.session_id = MappedKey(r.session_id, ses).n] : r \in rows}

\* session_id INTEGER NOT NULL of the new table: a NULL key is
\* sqlite3.IntegrityError, and the statement inserts nothing
CopyFails(rows, ses) == \E r \in rows : MappedKey(r.session_id, ses).null

\* lines 317-370: raw_segments_new is created, filled, and takes the place of
\* raw_segments with its three indexes; when the INSERT raises the new table
\* stays behind and raw_segments is as it was
RebuildRaw(st) ==
    IF ~st.ok \/ ~NeedsRebuild(st.schema.raw) THEN st
    ELSE IF CopyFails(st.raw, st.sessions)
         THEN [st EXCEPT !.ok = FALSE, !.schema.tables = @ \cup {"raw_segments_new"}]
         ELSE [st EXCEPT !.raw = CopyRows(st.raw, st.sessions),
                         !.schema.raw = "INTEGER",
                         !.schema.tables = @ \ {"raw_segments_new"},
                         !.schema.indexes = @ \cup IndexesOf("raw_segments")]

\* lines 372-442: the same for refined_segments
RebuildRefined(st) ==
    IF ~st.ok \/ ~NeedsRebuild(st.schema.refined) THEN st
    ELSE IF CopyFails(st.refined, st.sessions)
         THEN [st EXCEPT !.ok = FALSE, !.schema.tables = @ \cup {"refined_segments_new"}]
         ELSE [st EXCEPT !.refined = CopyRows(st.refined, st.sessions),
                         !.schema.refined = "INTEGER",
                         !.schema.tables = @ \ {"refined_segments_new"},
                         !.schema.indexes = @ \cup IndexesOf("refined_segments")]

\* migrate_database_schema, lines 291-445; what an exception leaves is
\* committed by get_db (line 149)
MigrateDatabaseSchema(st) == RebuildRefined(RebuildRaw(AddIsLocked(Bootstrap(st))))

\* init_db, lines 155-249: the tables (there since get_db), the indexes,
\* commit, then migrate_database_schema
InitDb(st) ==
    MigrateDatabaseSchema([Bootstrap(st) EXCEPT !.schema.indexes = @ \cup AllIndexes])

\* a caller starts migrate_database_schema() or init_db()
SchemaCall(t, op) == Call(t, [NoArgs EXCEPT !.op = op], "schema")

\* the call runs to its end or to the statement that raises; both handlers
\* rethrow (lines 249, 445)
SchemaStep(t) ==
    /\ pc[t] = "schema"
    /\ \E st \in {Store(sessions, raw_segments, refined_segments, schema)} :
       \E r \in {IF loc[t].op = "init_db" THEN InitDb(st)
                 ELSE MigrateDatabaseSchema(st)} :
           /\ raw_segments' = r.raw
           /\ refined_segments' = r.refined
           /\ schema' = r.schema
           /\ IF r.ok THEN Return(t, 0) ELSE Raise(t)
    /\ UNCHANGED <<sessions, speakers, segment_usage, driver, db>>

(***************************************************************************)
(* process_event (thalamus_app.py)                                         *)
(***************************************************************************)
MaxSegments == 3

\* log_timestamp: an ISO-8601 string, a string datetime.fromisoformat
\* rejects, a value that is no string and has no isoformat (None), no key
Timestamps == {"iso", "text", "none", "absent"}

\* a segment of an event; PyNone stands for a key the segment does not have
Segment(speaker_id, text) ==
    [speaker_id |-> speaker_id, speaker |-> PyNone, text |-> text,
     start_time |-> 0, end_time |-> 25]

SegmentKinds ==
    {Segment(PyInt(1), PyStr(<<"a">>)), Segment(PyStr(<<"2">>), PyStr(<<"b">>)),
     Segment(PyNone, PyStr(<<>>)), Segment(PyInt(1), PyNone)}

SegmentLists == UNION {[1..n -> SegmentKinds] : n \in 0..MaxSegments}

Event(sid, ts, segs) == [session_id |-> sid, log_timestamp |-> ts, segments |-> segs]

\* any segments in an event whose session is resolved, and every session_id
\* and log_timestamp with one segment
Events ==
    {Event(PyStr(S1), ts, segs) : ts \in {"iso", "none"}, segs \in SegmentLists}
        \cup {Event(sid, ts, <<Segment(PyInt(1), PyStr(<<"a">>))>>) :
                 sid \in {PyStr(S1), PyStr(<<>>), PyInt(1)}, ts \in Timestamps}

\* a caller starts process_event(event), once
ProcessEvent(t, event) ==
    /\ ret[t] = NoRet
    /\ Call(t, [f \in DOMAIN NoArgs \cup {"log_timestamp", "segments"} |->
                   CASE f = "op" -> "process_event"
                     [] f = "sref" -> event.session_id
                     [] f = "log_timestamp" -> event.log_timestamp
                     [] f = "segments" -> event.segments
                     [] OTHER -> NoArgs[f]],
            "event_start")

\* lines 50-66: event['log_timestamp'] (KeyError), fromisoformat of a string
\* (ValueError); then get_or_create_session(session_id_str)
EventStart(t) ==
    /\ pc[t] = "event_start"
    /\ IF loc[t].log_timestamp \in {"absent", "text"} THEN Raise(t)
       ELSE /\ pc' = [pc EXCEPT ![t] = "session_lookup"]
            /\ UNCHANGED <<loc, ret>>
    /\ UNCHANGED <<tables, driver, schema, db>>

\* mutant: a missing speaker_id counts as speaker 0
IntOrZero(v) ==
    CASE v.t \in {"int", "bool", "float"} -> [ok |-> TRUE, n |-> v.n]
      [] OTHER -> [ok |-> TRUE, n |-> 0]

\* int(x), line 73
IntOfValue(v) ==
    CASE v.t \in {"int", "bool", "float"} -> [ok |-> TRUE, n |-> v.n]
      [] v.t = "str" -> PyIntOfStr(v.s)
      [] OTHER -> [ok |-> FALSE, n |-> 0]

\* line 74: segment.get('speaker') or f"Speaker {speaker_id_value}"
SpeakerName(seg, n) ==
    IF Truthy(seg.speaker) THEN seg.speaker
    ELSE PyStr(<<"S", "p", "e", "a", "k", "e", "r", " ">> \o IntToStr(n))

\* get_or_create_speaker and get_or_create_session as the loop body meets
\* them: the row there is, else a new one
WithSpeaker(table, name) ==
    IF \E sp \in table : sp.name = name THEN table
    ELSE InsertInto(table, [id |-> NextId(table), name |-> name])

WithSession(table, e) ==
    IF \E se \in table : se.session_id = e THEN table
    ELSE InsertInto(table, [id |-> NextId(table), session_id |-> e])

\* lines 83-90: insert_segment(session_id_str, db_speaker_id, segment['text'],
\* ...); a segment without text is KeyError before the call, a timestamp
\* without isoformat AttributeError in the call, after its
\* get_or_create_session
StoreSegment(st, a, seg) ==
    IF seg.text.t # "str" THEN st
    ELSE IF a.log_timestamp # "iso"
         THEN [st EXCEPT !.sessions = WithSession(@, a.sref.s)]
         ELSE [st EXCEPT !.sessions = WithSession(@, a.sref.s),
                         !.raw = InsertInto(@,
                             [id |-> NextId(st.raw),
                              session_id |-> CHOOSE k \in {se.id : se \in
                                  {x \in WithSession(st.sessions, a.sref.s) :
                                       x.session_id = a.sref.s}} : TRUE,
                              speaker_id |-> CHOOSE k \in {sp.id : sp \in
                                  {x \in st.speakers : x.name = st.name}} :
                                      \A j \in {sp.id : sp \in
                                  {x \in st.speakers : x.name = st.name}} : k <= j,
                              text |-> seg.text.s, start_time |-> seg.start_time,
                              end_time |-> seg.end_time])]

\* lines 71-99, one iteration: an exception anywhere leaves what the calls
\* before it have committed and goes on to the next segment
SegmentOutcome(a, seg, ses, spk, raw) ==
    IF ~IntOfValue(seg.speaker_id).ok
    THEN [sessions |-> ses, speakers |-> spk, raw |-> raw, name |-> <<>>]
    ELSE StoreSegment(
             [sessions |-> ses,
              speakers |-> WithSpeaker(spk, SpeakerName(seg, IntOfValue(seg.speaker_id).n).s),
              raw |-> raw,
              name |-> SpeakerName(seg, IntOfValue(seg.speaker_id).n).s],
             a, seg)

\* lines 70-99: the loop over event['segments']; after the last segment
\* process_event returns None
EventSegment(t) ==
    /\ pc[t] = "event_segment"
    /\ IF loc[t].segments = <<>>
       THEN /\ Return(t, 0)
            /\ UNCHANGED <<sessions, speakers, raw_segments>>
       ELSE /\ \E r \in {SegmentOutcome(loc[t], Head(loc[t].segments), sessions,
                                        speakers, raw_segments)} :
                   /\ sessions' = r.sessions
                   /\ speakers' = r.speakers
                   /\ raw_segments' = r.raw
            /\ loc' = [loc EXCEPT ![t].segments = Tail(@)]
            /\ UNCHANGED <<pc, ret>>
    /\ UNCHANGED <<refined_segments, segment_usage, driver, schema, db>>

(***************************************************************************)
(* The serialized forms callers pass as source_segments                    *)
(***************************************************************************)
\* json.dumps of a list of integers: "[1, 2]"
RECURSIVE JsonDumpsItems(_)
JsonDumpsItems(ids) ==
    IF ids = <<>> THEN <<>>
    ELSE IF Len(ids) = 1 THEN IntToStr(ids[1])
    ELSE IntToStr(ids[1]) \o <<",", " ">> \o JsonDumpsItems(Tail(ids))

JsonDumps(ids) == <<"[">> \o JsonDumpsItems(ids) \o <<"]">>

(***************************************************************************)
(* The refinement driver: per session UNPROCESSED -> PROCESSING -> REFINED. *)
(* It selects the raw segments of a session, asks the external text        *)
(* service, and commits a successful response with one                     *)
(* insert_refined_segment call that names the selected raw ids.            *)
(***************************************************************************)
\* the caller slot whose calls are the driver's; the other callers ingest
DriverCaller == 1

\* a session the driver has not selected: no raw ids held, no failed call yet
NoWork == [state |-> "UNPROCESSED", ids |-> <<>>, failures |-> 0]

RECURSIVE Ascending(_)
\* the ids of a result set in rowid order
Ascending(S) ==
    IF S = {} THEN <<>>
    ELSE LET m == CHOOSE x \in S : \A y \in S : x <= y
         IN  <<m>> \o Ascending(S \ {m})

\* the raw segments of session e that no usage record claims:
\* get_unrefined_segments cross-referenced with get_used_segment_ids
Selectable(e) ==
    {v.id : v \in GetUnrefinedSegments(PyStr(e))} \ GetUsedSegmentIds

\* the driver picks an active session and its unused raw segments
DriverSelect(e) ==
    /\ driver[e].state = "UNPROCESSED"
    /\ e \in GetActiveSessions
    /\ Selectable(e) # {}
    /\ driver' = [driver EXCEPT ![e].state = "PROCESSING",
                                ![e].ids = Ascending(Selectable(e))]
    /\ UNCHANGED <<tables, pc, loc, ret, schema, db>>

\* call_openai_text raises: nothing is written, the session is retried later
DriverCallFails(e) ==
    /\ driver[e].state = "PROCESSING"
    /\ driver[e].failures < MaxFailures
    /\ driver' = [driver EXCEPT ![e] = [NoWork EXCEPT !.failures = driver[e].failures + 1]]
    /\ UNCHANGED <<tables, pc, loc, ret, schema, db>>

\* call_openai_text returns: the driver calls insert_refined_segment with the
\* selected raw ids as a JSON list
DriverCommit(e) ==
    /\ driver[e].state = "PROCESSING"
    /\ \A x \in ExtIds : driver[x].state # "COMMITTING"
    /\ Start(DriverCaller,
             RefinedArgs(PyStr(e), 1, <<"m">>, 0, 50, 9,
                         PyStr(JsonDumps(driver[e].ids)), PyNone, 0),
             "session_lookup")
    /\ driver' = [driver EXCEPT ![e].state = "COMMITTING"]
    /\ UNCHANGED <<tables, schema, db>>

\* the call has ended: a returned id makes the session REFINED, an exception
\* leaves it to a retry
DriverDone(e) ==
    /\ driver[e].state = "COMMITTING"
    /\ pc[DriverCaller] = "idle"
    /\ driver' = [driver EXCEPT ![e].state =
                      IF ret[DriverCaller].status = "ok" THEN "REFINED" ELSE "UNPROCESSED"]
    /\ UNCHANGED <<tables, pc, loc, ret, schema, db>>

(***************************************************************************)
(* Specification of the store: concurrent callers                          *)
(***************************************************************************)
Init ==
    /\ sessions = {}
    /\ speakers = {}
    /\ raw_segments = {}
    /\ refined_segments = {}
    /\ segment_usage = {}
    /\ pc = [t \in Threads |-> "idle"]
    /\ loc = [t \in Threads |-> NoArgs]
    /\ ret = [t \in Threads |-> NoRet]
    /\ driver = [e \in ExtIds |-> NoWork]
    /\ schema = Initialised
    /\ db = Unlocked

\* the statements of the calls in progress
Steps(t) ==
    \/ SessionLookup(t)
    \/ SessionInsert(t)
    \/ InsertRaw(t)
    \/ InsertRefined(t)
    \/ UpdateRefined(t)

\* the arguments of the callers
SourceInputs == {PyStr(JsonDumps(<<1, 2>>)), PyStr(IntToStr(2))}

UpdateInputs == {[k \in {"source_segments"} |-> SqlText(JsonDumps(<<2>>))]}

Next ==
    \E t \in Threads :
        \/ InsertSegment(t, PyStr(S1), 1, <<"a">>, 0, 25)
        \/ \E sref \in {PyStr(S1), PyInt(1)}, src \in SourceInputs :
               InsertRefinedSegment(t, sref, 1, <<"m">>, 0, 50, 9, src, PyNone, 0)
        \/ \E id \in 1..MaxRefined, kw \in UpdateInputs : UpdateRefinedSegment(t, id, kw)
        \/ Steps(t)

Spec == Init /\ [][Next]_vars

\* source_segments arguments beyond the well-formed ones: a list with a
\* non-numeric element, a text that is neither JSON nor an integer, a JSON
\* string, JSON null, and a Python list
MixedList == PyStr(<<"[", "1", ",", " ", "\"", "x", "\"", ",", " ", "2", "]">>)
NoJson == PyStr(<<"n", "o">>)
JsonString == PyStr(<<"\"", "x", "\"">>)
JsonNull == PyStr(<<"n", "u", "l", "l">>)
ParsedList == PyList(<<PyInt(1), PyInt(2)>>)

SourceCalls ==
    ({PyStr(JsonDumps(<<1, 2>>)), PyInt(2), ParsedList, NoJson, JsonString, JsonNull}
         \X {0})
    \cup ({MixedList} \X {0, 1})

\* insert_refined_segment over the forms of source_segments
SourceNext ==
    \E t \in Threads :
        \/ \E c \in SourceCalls :
               InsertRefinedSegment(t, PyStr(S1), 1, <<"m">>, 0, 50, 9, c[1], PyNone, c[2])
        \/ SessionLookup(t)
        \/ SessionInsert(t)
        \/ InsertRefined(t)

SourceSpec == Init /\ [][SourceNext]_vars

\* ingestion by the other callers, refinement by the driver
DriverNext ==
    \/ \E t \in Threads \ {DriverCaller} :
           \/ GetOrCreateSpeaker(t, PyInt(1), PyStr(<<"A">>))
           \/ \E e \in ExtIds : InsertSegment(t, PyStr(e), 1, <<"a">>, 0, 25)
           \/ SpeakerLookup(t)
           \/ SpeakerInsert(t)
           \/ InsertRaw(t)
    \/ \E t \in Threads :
           \/ SessionLookup(t)
           \/ SessionInsert(t)
    \/ InsertRefined(DriverCaller)
    \/ \E e \in ExtIds :
           \/ DriverSelect(e)
           \/ DriverCallFails(e)
           \/ DriverCommit(e)
           \/ DriverDone(e)

DriverSpec == Init /\ [][DriverNext]_vars

\* get_or_create_session by concurrent callers, directly and nested in
\* insert_segment
BlankId == <<" ">>
SessionArgs == {PyStr(e) : e \in ExtIds} \cup {PyStr(BlankId), PyStr(<<>>), PyNone}

SessionNext ==
    \E t \in Threads :
        \/ \E sid \in SessionArgs : GetOrCreateSession(t, sid)
        \/ \E sid \in SessionArgs : InsertSegment(t, sid, 1, <<"a">>, 0, 25)
        \/ SessionLookup(t)
        \/ SessionInsert(t)
        \/ InsertRaw(t)

SessionSpec == Init /\ [][SessionNext]_vars

\* get_or_create_speaker by concurrent callers: the id hints and names passed
SpeakerHints == {PyNone, PyInt(1), PyInt(2)}
SpeakerNames == {PyStr(<<"A">>), PyStr(<<"B">>), PyStr(<<>>), PyNone}

SpeakerNext ==
    \E t \in Threads :
        \/ \E hint \in SpeakerHints, name \in SpeakerNames :
               GetOrCreateSpeaker(t, hint, name)
        \/ SpeakerLookup(t)
        \/ SpeakerInsert(t)

SpeakerSpec == Init /\ [][SpeakerNext]_vars

\* ingestion and refinement with the read-path queries: raw segments of two
\* sessions, given by external id or by key, consumed by refined segments
RawCalls == {<<PyStr(S1), <<"a">>, 0, 25>>, <<PyInt(1), <<"b">>, 25, 50>>,
             <<PyStr(S2), <<"a">>, 0, 25>>}

ViewNext ==
    \/ GetOrCreateSpeaker(1, PyInt(1), PyStr(<<"A">>))
    \/ \E c \in RawCalls : InsertSegment(1, c[1], 1, c[2], c[3], c[4])
    \/ \E src \in SourceInputs :
           InsertRefinedSegment(2, PyStr(S1), 1, <<"m">>, 0, 50, 9, src, PyNone, 0)
    \/ \E t \in Threads :
           \/ SpeakerLookup(t) \/ SpeakerInsert(t)
           \/ SessionLookup(t) \/ SessionInsert(t)
           \/ InsertRaw(t) \/ InsertRefined(t)

ViewSpec == Init /\ [][ViewNext]_vars

\* refined segments of two sessions, updated and locked by a second caller:
\* keywords inside and outside the whitelist, no keyword, a value sqlite3
\* cannot bind, and ids no refined segment has
RefinedCalls == {<<PyStr(S1), 0, 50>>, <<PyStr(S1), 50, 100>>, <<PyStr(S2), 0, 50>>}

Lock == [is_locked |-> PyBool(TRUE)]
Unlock == [is_locked |-> PyBool(FALSE)]
InvalidField == [invalid_field |-> PyStr(<<"x">>)]
Mixed == [text |-> PyStr(<<"n">>), start_time |-> PyInt(75), is_processing |-> PyInt(1),
          id |-> PyInt(9), session_id |-> PyInt(2)]
Unbindable == [metadata |-> PyList(<<>>), is_locked |-> PyBool(TRUE)]
UpdateCalls == {Lock, Unlock, InvalidField, Mixed, Unbindable}

LockNext ==
    \/ \E c \in RefinedCalls :
           InsertRefinedSegment(1, c[1], 1, <<"m">>, c[2], c[3], 9, PyNone, PyNone, 0)
    \/ \E id \in 1..MaxRefined, kw \in UpdateCalls : UpdateRefinedSegment(2, id, kw)
    \/ \E id \in 1..MaxRefined : UpdateRefinedSegment(2, id, <<>>)
    \/ \E t \in Threads :
           \/ SessionLookup(t) \/ SessionInsert(t)
           \/ InsertRefined(t) \/ UpdateRefined(t)

LockSpec == Init /\ [][LockNext]_vars

\* the five writing operations, sessions given by external id and by key
\* (keys 1 and 2, with or without a session of that key), a refined segment
\* updated after its insertion
KeyedRefinedCalls == {<<PyStr(S1), 50, 100>>, <<PyInt(1), 0, 50>>, <<PyInt(2), 0, 50>>}
KeyedRawCalls == {<<PyInt(2), <<"b">>>>}

StoreNext ==
    \/ \E c \in KeyedRefinedCalls :
           InsertRefinedSegment(1, c[1], 1, <<"m">>, c[2], c[3], 9, PyNone, PyNone, 0)
    \/ GetOrCreateSession(1, PyStr(S2))
    \/ GetOrCreateSpeaker(1, PyInt(1), PyStr(<<"A">>))
    \/ \E c \in KeyedRawCalls : InsertSegment(1, c[1], 1, c[2], 0, 25)
    \/ UpdateRefinedSegment(2, 1, Mixed)
    \/ \E t \in Threads :
           \/ SessionLookup(t) \/ SessionInsert(t)
           \/ SpeakerLookup(t) \/ SpeakerInsert(t)
           \/ InsertRaw(t) \/ InsertRefined(t) \/ UpdateRefined(t)

StoreSpec == Init /\ [][StoreNext]_vars

\* the writing operations by one caller, the queries by the other, each call
\* with or without a connection
Queries == {"get_unrefined_segments", "get_used_segment_ids", "get_active_sessions",
            "get_refined_segment", "get_refined_segments", "get_locked_segments"}

FailNext ==
    \/ GetOrCreateSession(1, PyStr(S1))
    \/ GetOrCreateSpeaker(1, PyInt(1), PyStr(<<"A">>))
    \/ \E sref \in {PyStr(S1), PyInt(1)} : InsertSegment(1, sref, 1, <<"a">>, 0, 25)
    \/ \E sref \in {PyStr(S1), PyInt(1)} :
           InsertRefinedSegment(1, sref, 1, <<"m">>, 0, 50, 9, PyInt(1), PyNone, 0)
    \/ UpdateRefinedSegment(1, 1, Lock)
    \/ \E kw \in {InvalidField, Unbindable} : UpdateRefinedSegment(2, 1, kw)
    \/ \E op \in Queries : Query(2, op, PyStr(S1), 1)
    \/ \E t \in Threads :
           \/ SessionLookup(t) \/ SessionInsert(t)
           \/ SpeakerLookup(t) \/ SpeakerInsert(t)
           \/ InsertRaw(t) \/ InsertRefined(t) \/ UpdateRefined(t)
           \/ QueryReturns(t) \/ ConnectFails(t)

FailSpec == Init /\ [][FailNext]_vars

\* stores as an earlier version left them: session_id of raw_segments and
\* refined_segments declared TEXT and holding external ids, integer
\* literals, a text that starts with a digit, a text that is none of these;
\* with or without the is_locked column (with it, the refined segments are
\* locked ones); and stores that are initialised
MaxLegacyRaw == 2
MaxLegacyRefined == 1

Junk == <<"x">>
LegacyValues == {S1, <<"2">>, <<"1", "x">>, Junk}
LegacyKeys == {1, 2}
LegacySessions == {{}, {[id |-> 1, session_id |-> S1]},
                   {[id |-> 1, session_id |-> S1], [id |-> 3, session_id |-> <<"2">>]}}

LegacyRaw(i, v) ==
    [id |-> 2 * i + 1, session_id |-> v, speaker_id |-> 1, text |-> <<"a">>,
     start_time |-> 0, end_time |-> 25]

LegacyRefined(i, v, locked) ==
    IF locked
    THEN [id |-> 2 * i + 2, session_id |-> v, refined_speaker_id |-> 1,
          text |-> <<"m">>, start_time |-> 0, end_time |-> 50,
          confidence_score |-> 9, source_segments |-> PyNone, metadata |-> PyNone,
          is_processing |-> 0, is_locked |-> 1]
    ELSE [id |-> 2 * i + 2, session_id |-> v, refined_speaker_id |-> 1,
          text |-> <<"m">>, start_time |-> 0, end_time |-> 50,
          confidence_score |-> 9, source_segments |-> PyNone, metadata |-> PyNone,
          is_processing |-> 0]

\* the values a session_id column of the declared type holds
ColumnValues(type) == IF type = "TEXT" THEN LegacyValues ELSE LegacyKeys

LegacySchemas ==
    {[tables |-> ts[1], indexes |-> ts[2], raw |-> rt, refined |-> ft, is_locked |-> il] :
        ts \in {<<{"sessions", "raw_segments", "refined_segments"}, {}>>,
                <<CoreTables, AllIndexes>>},
        rt \in {"TEXT", "INTEGER"}, ft \in {"TEXT", "INTEGER"}, il \in BOOLEAN}

LegacyInit ==
    /\ sessions \in LegacySessions
    /\ speakers = {}
    /\ segment_usage = {}
    /\ schema \in LegacySchemas
    /\ \E n \in 0..MaxLegacyRaw : \E f \in [1..n -> ColumnValues(schema.raw)] :
           raw_segments = {LegacyRaw(i, f[i]) : i \in 1..n}
    /\ \E n \in 0..MaxLegacyRefined : \E f \in [1..n -> ColumnValues(schema.refined)] :
           refined_segments = {LegacyRefined(i, f[i], schema.is_locked) : i \in 1..n}
    /\ pc = [t \in Threads |-> "idle"]
    /\ loc = [t \in Threads |-> NoArgs]
    /\ ret = [t \in Threads |-> NoRet]
    /\ driver = [e \in ExtIds |-> NoWork]
    /\ db = Unlocked

MigrateNext ==
    \/ SchemaCall(1, "migrate_database_schema")
    \/ SchemaCall(2, "init_db")
    \/ \E t \in Threads : SchemaStep(t)

MigrateSpec == LegacyInit /\ [][MigrateNext]_vars

\* another connection to the database file takes the write lock (BEGIN
\* IMMEDIATE: writers wait, readers go on) or the exclusive lock (readers
\* wait too), and gives it back
LockModes == {"reserved", "exclusive"}

OtherLocks(mode) ==
    /\ db.lock = "none"
    /\ db' = [db EXCEPT !.lock = mode]
    /\ UNCHANGED <<tables, pc, loc, ret, driver, schema>>

OtherUnlocks ==
    /\ db.lock # "none"
    /\ db' = [db EXCEPT !.lock = "none"]
    /\ UNCHANGED <<tables, pc, loc, ret, driver, schema>>

\* the next statement of caller t is an INSERT or an UPDATE
Writes(t) ==
    pc[t] \in {"session_insert", "speaker_insert", "insert_raw", "insert_refined",
               "update_refined"}

\* the next statement of caller t cannot get the lock it needs
Blocked(t) ==
    /\ pc[t] # "idle"
    /\ db.lock = "exclusive" \/ (db.lock = "reserved" /\ Writes(t))

\* mutant: a connection without busy timeout waits as long as the lock is held
NeverExpires(t) == FALSE

\* sqlite3.connect(db_path, timeout=5.0), line 61: the wait of a blocked
\* statement ends after five seconds
Expires(t) == Blocked(t)

\* the wait ends with sqlite3.OperationalError (database is locked): the
\* caller gets what it gets for any database error, and nothing is written
TimesOut(t) ==
    /\ Expires(t)
    /\ IF loc[t].op \in Degrades THEN Return(t, {})
       ELSE IF loc[t].op = "update_refined_segment" THEN Return(t, 0)
       ELSE Raise(t)
    /\ UNCHANGED <<tables, driver, schema, db>>

\* the statement of caller t runs when it gets its lock, or its wait ends
BusyStep(t) ==
    \/ ~Blocked(t) /\ SessionLookup(t)
    \/ ~Blocked(t) /\ SessionInsert(t)
    \/ ~Blocked(t) /\ InsertRaw(t)
    \/ ~Blocked(t) /\ InsertRefined(t)
    \/ ~Blocked(t) /\ UpdateRefined(t)
    \/ ~Blocked(t) /\ QueryReturns(t)
    \/ TimesOut(t)

BusyQueries == {"get_unrefined_segments", "get_refined_segments"}

BusyNext ==
    \/ \E sref \in {PyStr(S1), PyInt(1)} : InsertSegment(1, sref, 1, <<"a">>, 0, 25)
    \/ GetOrCreateSession(1, PyStr(S1))
    \/ InsertRefinedSegment(2, PyStr(S1), 1, <<"m">>, 0, 50, 9, PyInt(1), PyNone, 0)
    \/ UpdateRefinedSegment(2, 1, Lock)
    \/ \E op \in BusyQueries : Query(2, op, PyStr(S1), 1)
    \/ \E mode \in LockModes : OtherLocks(mode)
    \/ OtherUnlocks
    \/ \E t \in Threads : BusyStep(t)

\* every caller gets to run: its statement executes or its wait expires;
\* the other connection need never give the lock back
BusySpec == Init /\ [][BusyNext]_vars /\ \A t \in Threads : WF_vars(BusyStep(t))

\* the connections of the calls: get_db opens one with sqlite3.connect
\* (line 61) and its finally clause commits without closing it (lines
\* 143-151); a connection no call uses any more stays open until the
\* runtime's garbage collector finalizes it
MaxOpen == 3

\* connections a call opens: its own, and the one of the
\* get_or_create_session it nests when the session is given as external id
Connections(args) ==
    IF args.op \in {"insert_segment", "insert_refined_segment"}
           /\ args.sref.t \notin {"int", "bool"}
    THEN 2 ELSE 1

\* connections the call in progress of caller t uses
InUse(t) ==
    IF pc[t] = "idle" THEN 0
    ELSE IF pc[t] \in {"session_lookup", "session_insert"}
              /\ loc[t].op # "get_or_create_session"
         THEN 2 ELSE 1

\* caller t enters a call: with get_db() as conn
Connect(t, args, first) ==
    /\ Start(t, args, first)
    /\ db.open + Connections(args) <= MaxOpen
    /\ db' = [db EXCEPT !.open = @ + Connections(args)]
    /\ UNCHANGED <<tables, driver, schema>>

\* a connection is open that no call in progress refers to
Collectable == db.open > InUse(1) + InUse(2)

\* the garbage collector finalizes such a connection, which closes it
Collect ==
    /\ Collectable
    /\ db' = [db EXCEPT !.open = @ - 1]
    /\ UNCHANGED <<tables, pc, loc, ret, driver, schema>>

ConnNext ==
    \/ Connect(1, [NoArgs EXCEPT !.op = "get_or_create_session", !.sref = PyStr(S1)],
               "session_lookup")
    \/ /\ Cardinality(raw_segments) + InFlight("insert_segment") < MaxRaw
       /\ Connect(2, [NoArgs EXCEPT !.op = "insert_segment", !.sref = PyStr(S1),
                                    !.speaker = 1, !.text = <<"a">>, !.end_time = 25],
                  "session_lookup")
    \/ /\ Cardinality(raw_segments) + InFlight("insert_segment") < MaxRaw
       /\ Connect(2, [NoArgs EXCEPT !.op = "insert_segment", !.sref = PyInt(1), !.pk = 1,
                                    !.speaker = 1, !.text = <<"b">>, !.end_time = 25],
                  "insert_raw")
    \/ Connect(1, [NoArgs EXCEPT !.op = "get_refined_segments", !.sref = PyStr(S1)],
               "query")
    \/ \E t \in Threads : SessionLookup(t)
    \/ \E t \in Threads : SessionInsert(t)
    \/ \E t \in Threads : InsertRaw(t)
    \/ \E t \in Threads : QueryReturns(t)
    \/ Collect

ConnSpec == Init /\ [][ConnNext]_vars

\* process_event on a store another caller writes to
EventNext ==
    \/ ret[1] = NoRet /\ pc[1] = "idle" /\ \E event \in Events : ProcessEvent(1, event)
    \/ GetOrCreateSession(2, PyStr(S1))
    \/ InsertSegment(2, PyInt(1), 1, <<"c">>, 0, 25)
    \/ \E t \in Threads : EventStart(t)
    \/ \E t \in Threads : SessionLookup(t)
    \/ \E t \in Threads : SessionInsert(t)
    \/ \E t \in Threads : EventSegment(t)
    \/ \E t \in Threads : InsertRaw(t)

EventSpec == Init /\ [][EventNext]_vars

(***************************************************************************)
(* Properties of the usage ledger                                          *)
(***************************************************************************)
\* caller t executes the transaction of insert_refined_segment in this step
RefinedTxnStep(t) == pc[t] = "insert_refined" /\ pc'[t] = "idle"

\* the lists of raw ids a caller may mean
IdLists == UNION {[1..n -> 1..MaxRaw] : n \in 1..MaxRaw}

IdSet(ids) == {ids[i] : i \in 1..Len(ids)}

\* the three forms in which a caller supplies the list ids as source_segments
AsJsonList(ids) == PyStr(JsonDumps(ids))
AsBareId(ids) == {PyStr(IntToStr(ids[1])), PyInt(ids[1])}
AsCollection(ids) == PyList([i \in 1..Len(ids) |-> PyInt(ids[i])])

\* src is the list ids in serialized or bare form
Denotes(src, ids) == src = AsJsonList(ids) \/ (Len(ids) = 1 /\ src \in AsBareId(ids))

\* src names the raw id r
Names(src, r) == \E ids \in IdLists : Denotes(src, ids) /\ r \in IdSet(ids)

\* the external id of the session a sessionRef denotes (<<>> when it denotes none)
ExtIdOf(sref) ==
    IF sref.t = "str" THEN sref.s
    ELSE IF \E se \in sessions : se.id = sref.n
         THEN (CHOOSE se \in sessions : se.id = sref.n).session_id
         ELSE <<>>

\* C1: in every reachable state segment_usage holds at most one usage record
\* for each raw segment id, whatever calls of insert_segment,
\* insert_refined_segment and update_refined_segment have run and interleaved.
C1_AtMostOneUsagePerRaw ==
    \A u1, u2 \in segment_usage :
        u1.raw_segment_id = u2.raw_segment_id => u1 = u2

\* two refined segments whose source_segments both name raw id 2 are stored
C1_Witness ==
    /\ \E r1, r2 \in refined_segments :
           /\ r1.id # r2.id
           /\ Names(r1.source_segments, 2)
           /\ Names(r2.source_segments, 2)
    /\ \E u \in segment_usage : u.raw_segment_id = 2

\* C2: an insert_refined_segment whose source_segments names a raw id that
\* already has a usage record returns a new refined id, and every usage record
\* that existed before the call is still there, pointing at the same refined
\* segment.
C2_ClaimedIdIgnored ==
    [][\A t \in Threads : \A ids \in IdLists :
          (/\ RefinedTxnStep(t)
           /\ Denotes(loc[t].source_segments, ids)
           /\ IdSet(ids) \cap GetUsedSegmentIds # {})
          => /\ ret'[t].status = "ok"
             /\ ret'[t].val \notin {r.id : r \in refined_segments}
             /\ ret'[t].val \in {r.id : r \in refined_segments'}
             /\ \A u \in segment_usage : u \in segment_usage'
             /\ \A u \in segment_usage' :
                    (u.raw_segment_id \in GetUsedSegmentIds) => u \in segment_usage]_vars

\* refined segment 2 names raw id 2, which refined segment 1 had claimed
C2_Witness ==
    /\ \E t \in Threads : ret[t] = [op |-> "insert_refined_segment", status |-> "ok", val |-> 2]
    /\ \E r \in refined_segments : r.id = 2 /\ Names(r.source_segments, 2)
    /\ [raw_segment_id |-> 2, refined_segment_id |-> 1] \in segment_usage

\* C3: a successful insert_refined_segment(session, speaker, text, start, end,
\* source_segments = S) where no id of S has a usage record leaves a usage
\* record (r, new id) for every r in S, so that get_used_segment_ids contains S,
\* and get_refined_segments(session) contains a row with the new id and text.
C3_RefinementCommit ==
    [][\A t \in Threads : \A ids \in IdLists :
          (/\ RefinedTxnStep(t)
           /\ ret'[t].status = "ok"
           /\ Denotes(loc[t].source_segments, ids)
           /\ IdSet(ids) \cap GetUsedSegmentIds = {})
          => /\ \A r \in IdSet(ids) :
                    [raw_segment_id |-> r, refined_segment_id |-> ret'[t].val]
                        \in segment_usage'
             /\ IdSet(ids) \subseteq GetUsedSegmentIds'
             /\ \A e \in ExtIds :
                    (e = ExtIdOf(loc[t].sref)) =>
                        \E v \in GetRefinedSegments(e)' :
                            v.id = ret'[t].val /\ v.text = loc[t].text]_vars

\* the scenario: raw ids 1 and 2 of session "s1" are committed to one refined segment
C3_Witness ==
    \E t \in Threads :
        /\ ret[t].op = "insert_refined_segment" /\ ret[t].status = "ok"
        /\ [raw_segment_id |-> 1, refined_segment_id |-> ret[t].val] \in segment_usage
        /\ [raw_segment_id |-> 2, refined_segment_id |-> ret[t].val] \in segment_usage
        /\ \E v \in GetRefinedSegments(S1) : v.id = ret[t].val /\ v.text = <<"m">>
        /\ {1, 2} \subseteq {rs.id : rs \in raw_segments}

\* C6: a usage record, once it exists, exists unchanged in every later state:
\* no step deletes it or changes its refined_segment_id, and the result of
\* get_used_segment_ids only grows.
C6_UsageRecordsPersist ==
    [][/\ \A u \in segment_usage : u \in segment_usage'
       /\ GetUsedSegmentIds \subseteq GetUsedSegmentIds']_vars

\* a usage record has outlived a later insert that names its raw id and an
\* update of the source_segments of the refined segment it points at
C6_Witness ==
    /\ [raw_segment_id |-> 2, refined_segment_id |-> 1] \in segment_usage
    /\ \E r \in refined_segments : r.id = 2 /\ Names(r.source_segments, 2)
    /\ \E r \in refined_segments :
           r.id = 1 /\ r.source_segments = SqlText(JsonDumps(<<2>>))
    /\ \E t \in Threads : ret[t] = [op |-> "update_refined_segment", status |-> "ok", val |-> 1]

(***************************************************************************)
(* Properties of the forms of source_segments                              *)
(***************************************************************************)
\* the refined rows and usage records the step has added
NewRefined == refined_segments' \ refined_segments
NewUsage == segment_usage' \ segment_usage

\* src is the list ids in one of the three forms a caller may supply
SuppliedAs(src, ids) == Denotes(src, ids) \/ src = AsCollection(ids)

\* src is neither a list of ids nor a single id
Unparseable(src) == Truthy(src) /\ \A ids \in IdLists : ~SuppliedAs(src, ids)

\* C4: when insert_refined_segment fails after the refined row is inserted and
\* before all its usage records are written, either no refined row and no
\* usage record of the call is persisted, or the persisted row has
\* is_processing = 1; a persisted row with is_processing = 0 and part of its
\* usage records does not occur.
C4_PartialFailureMarked ==
    [][\A t \in Threads :
          (RefinedTxnStep(t) /\ ret'[t].status = "error")
          => \/ NewRefined = {} /\ NewUsage = {}
             \/ \A r \in NewRefined : r.is_processing = 1]_vars

\* C7: insert_refined_segment records the same usage records for the same raw
\* ids whether source_segments is a JSON list text, a bare id or a parsed
\* collection of ids (a record for every id not yet claimed, pointing at the
\* new refined segment), and none of the three forms makes the call fail.
C7_ThreeFormsAgree ==
    [][\A t \in Threads : \A ids \in IdLists :
          (RefinedTxnStep(t) /\ SuppliedAs(loc[t].source_segments, ids))
          => /\ ret'[t].status = "ok"
             /\ NewUsage = {[raw_segment_id |-> r, refined_segment_id |-> ret'[t].val] :
                               r \in IdSet(ids) \ GetUsedSegmentIds}]_vars

\* C8: when source_segments is neither a list of ids nor a single id,
\* insert_refined_segment inserts the refined row, returns its id, writes no
\* usage record and raises no error.
C8_UnparseableDegrades ==
    [][\A t \in Threads :
          (RefinedTxnStep(t) /\ Unparseable(loc[t].source_segments))
          => /\ ret'[t].status = "ok"
             /\ \E r \in NewRefined : r.id = ret'[t].val /\ NewRefined = {r}
             /\ NewUsage = {}]_vars

(***************************************************************************)
(* Properties of the refinement driver                                     *)
(***************************************************************************)
\* C5: when the external text-refinement call fails for a session, no refined
\* segment and no usage record is created, the raw segments selected for it
\* stay unused and get_active_sessions still returns the session; a refined
\* row and usage records come into existence only together, in the one
\* insert_refined_segment call the driver makes after a successful response,
\* the row for that session and a record for each selected raw id.
C5_FailedCallCommitsNothing ==
    [][/\ \A e \in ExtIds :
              (driver[e].state = "PROCESSING" /\ driver'[e].state = "UNPROCESSED")
              => /\ NewRefined = {} /\ NewUsage = {}
                 /\ GetRefinedSegments(e) = {}
                 /\ \A i \in 1..Len(driver[e].ids) :
                        driver[e].ids[i] \notin GetUsedSegmentIds'
                 /\ e \in GetActiveSessions'
       /\ (NewRefined # {} \/ NewUsage # {})
              => \E e \in ExtIds :
                     /\ driver[e].state = "COMMITTING"
                     /\ RefinedTxnStep(DriverCaller)
                     /\ loc[DriverCaller].sref = PyStr(e)
                     /\ \E r \in NewRefined :
                            /\ NewRefined = {r}
                            /\ r.id = ret'[DriverCaller].val
                            /\ \E v \in GetRefinedSegments(e)' : v.id = r.id
                            /\ NewUsage =
                                   {[raw_segment_id |-> driver[e].ids[i],
                                     refined_segment_id |-> r.id] :
                                        i \in 1..Len(driver[e].ids)}
                            /\ NewUsage # {}]_vars

\* the external call for session "s1" has failed: the session is back at
\* UNPROCESSED with nothing refined and is still active, while session "s2"
\* has been committed
C5_Witness ==
    /\ driver[S1].state = "UNPROCESSED" /\ driver[S1].failures > 0
    /\ GetRefinedSegments(S1) = {}
    /\ S1 \in GetActiveSessions
    /\ driver[S2].state = "REFINED"
    /\ GetRefinedSegments(S2) # {}

(***************************************************************************)
(* Properties of get_or_create_session                                     *)
(***************************************************************************)
\* caller t returns from get_or_create_session in this step
SessionReturnStep(t) ==
    /\ loc[t].op = "get_or_create_session"
    /\ pc[t] \in {"session_lookup", "session_insert"}
    /\ pc'[t] = "idle"
    /\ ret'[t].status = "ok"

\* C9: for every non-blank external id every return of get_or_create_session
\* gives the key of the one row sessions holds for that id; that row is never
\* removed or changed, so two calls return the same key whatever runs in
\* between, and a call that finds the row returns.
C9_SameKeyOneRow ==
    [][\A t \in Threads :
          /\ SessionReturnStep(t)
                 => /\ ~IsBlankId(loc[t].sref)
                    /\ \E se \in sessions' :
                           /\ se.id = ret'[t].val
                           /\ \A x \in sessions' :
                                  (x.session_id = loc[t].sref.s) <=> (x = se)
          /\ \A se \in sessions : se \in sessions'
          /\ (/\ loc[t].op = "get_or_create_session"
              /\ pc[t] = "session_lookup" /\ pc'[t] # pc[t]
              /\ \E se \in sessions : se.session_id = loc[t].sref.s)
                 => SessionReturnStep(t)]_vars

\* both callers have returned key 2 from get_or_create_session, the key of
\* the second session created, and a raw segment has been inserted
C9_Witness ==
    /\ \A t \in Threads :
           ret[t] = [op |-> "get_or_create_session", status |-> "ok", val |-> 2]
    /\ Cardinality(sessions) = 2
    /\ raw_segments # {}

\* C10: no two session rows share a key, and the row stored under the key a
\* get_or_create_session call returns carries exactly the external id that
\* was passed, so calls for different external ids return different keys.
C10_KeysDistinguishIds ==
    [][/\ \A a, b \in sessions' : a.id = b.id => a = b
       /\ \A t \in Threads :
              SessionReturnStep(t)
              => /\ \E se \in sessions' : se.id = ret'[t].val
                 /\ \A se \in sessions' :
                        (se.id = ret'[t].val) <=>
                            (se = [id |-> ret'[t].val,
                                   session_id |-> loc[t].sref.s])]_vars

\* the two callers hold the keys of two different external ids
C10_Witness ==
    /\ ret[1] = [op |-> "get_or_create_session", status |-> "ok", val |-> 1]
    /\ ret[2] = [op |-> "get_or_create_session", status |-> "ok", val |-> 2]
    /\ sessions = {[id |-> 1, session_id |-> S1], [id |-> 2, session_id |-> S2]}

(***************************************************************************)
(* Properties of get_or_create_speaker                                     *)
(***************************************************************************)
\* caller t returns from get_or_create_speaker in this step
SpeakerReturnStep(t) ==
    /\ loc[t].op = "get_or_create_speaker"
    /\ pc[t] \in {"speaker_lookup", "speaker_insert"}
    /\ pc'[t] = "idle"
    /\ ret'[t].status = "ok"

\* the speaker rows of a table that carry the name
Named(table, name) == {sp \in table : name.t = "str" /\ sp.name = name.s}

\* C11: get_or_create_speaker returns the same key for the same name whatever
\* id hint is passed: every return gives the key of the first row stored for
\* the name, rows are never removed or changed, and a call that finds the
\* name stored returns and adds no row.
C11_SameKeyAnyHint ==
    [][\A t \in Threads :
          /\ SpeakerReturnStep(t)
                 => \E sp \in Named(speakers', loc[t].name) :
                        /\ sp.id = ret'[t].val
                        /\ \A x \in Named(speakers', loc[t].name) : sp.id <= x.id
          /\ \A sp \in speakers : sp \in speakers'
          /\ (/\ loc[t].op = "get_or_create_speaker"
              /\ pc[t] = "speaker_lookup" /\ pc'[t] # pc[t]
              /\ Named(speakers, loc[t].name) # {})
                 => SpeakerReturnStep(t) /\ speakers' = speakers]_vars

\* C13: get_or_create_speaker calls for the same name that run concurrently
\* converge to a single speaker row for that name.
C13_OneRowPerName ==
    \A a, b \in speakers : a.name = b.name => a = b

\* C15: get_or_create_speaker with a null or empty name fails with an error
\* and creates no speaker row.
C15_BlankNameRejected ==
    [][\A t \in Threads :
          (/\ loc[t].op = "get_or_create_speaker"
           /\ pc'[t] # pc[t]
           /\ ~Truthy(loc[t].name))
          => /\ speakers' = speakers
             /\ pc'[t] = "idle" => ret'[t].status = "error"]_vars

\* the session id is null, empty or white space only
Blank(sid) == sid = PyNone \/ (sid.t = "str" /\ \A i \in 1..Len(sid.s) : IsSpace(sid.s[i]))

\* C12: when two get_or_create_session calls for the same external id run
\* concurrently, one session row is created and both calls return its key:
\* no call with a non-blank id ends with an error.
C12_ConcurrentCallsBothReturn ==
    [][\A t \in Threads :
          (/\ loc[t].op = "get_or_create_session"
           /\ ~Blank(loc[t].sref)
           /\ pc[t] # "idle" /\ pc'[t] = "idle")
          => /\ ret'[t].status = "ok"
             /\ \E se \in sessions' :
                    /\ se.id = ret'[t].val
                    /\ \A x \in sessions' :
                           (x.session_id = loc[t].sref.s) <=> (x = se)]_vars

\* C14: get_or_create_session with an empty, white-space-only or null id,
\* called directly or from insert_segment, ends with an error and creates no
\* session row and no other row.
C14_BlankIdRejected ==
    [][\A t \in Threads :
          (/\ pc[t] = "session_lookup" /\ pc'[t] # pc[t]
           /\ Blank(loc[t].sref))
          => /\ pc'[t] = "idle" /\ ret'[t].status = "error"
             /\ sessions' = sessions
             /\ raw_segments' = raw_segments]_vars

\* a direct call and an insert_segment call have both ended with the error
\* while no session row and no raw segment exists
C14_Witness ==
    /\ ret[1] = [op |-> "get_or_create_session", status |-> "error", val |-> 0]
    /\ ret[2] = [op |-> "insert_segment", status |-> "error", val |-> 0]
    /\ sessions = {}
    /\ raw_segments = {}

(***************************************************************************)
(* Properties of the read-path queries                                     *)
(***************************************************************************)
\* caller t executes the INSERT of insert_segment in this step
RawInsertStep(t) == pc[t] = "insert_raw" /\ pc'[t] = "idle"

\* id, text, start and end of the rows of a result
Shown(view) ==
    {[id |-> v.id, session_id |-> v.session_id, text |-> v.text,
      start_time |-> v.start_time, end_time |-> v.end_time] : v \in view}

\* the raw segments stored under the key of the session with external id e
\* and under the key of a speaker
RawOf(table, ses, spk, e) ==
    {rs \in table : /\ \E se \in ses : se.id = rs.session_id /\ se.session_id = e
                    /\ \E sp \in spk : sp.id = rs.speaker_id}

C18_ActiveSessionsExact ==
    [][/\ \A e \in ExtIds :
              (e \in GetActiveSessions') <=>
                  \E se \in sessions' : \E rs \in raw_segments' :
                      /\ se.session_id = e /\ rs.session_id = se.id
                      /\ rs.id \notin GetUsedSegmentIds'
       /\ \A t \in Threads : \A se \in sessions :
              (RawInsertStep(t) /\ se.id = loc[t].pk)
              => se.session_id \in GetActiveSessions']_vars

(***************************************************************************)
(* Properties of update_refined_segment and get_locked_segments            *)
(***************************************************************************)
\* caller t executes update_refined_segment in this step
UpdateStep(t) == pc[t] = "update_refined" /\ pc'[t] = "idle"

\* the fields update_refined_segment may change
Whitelist == {"text", "start_time", "end_time", "confidence_score",
              "source_segments", "metadata", "is_locked"}

\* the column value that holds the supplied value v (true is 1, false 0)
Written(f, v) ==
    IF f \in {"source_segments", "metadata"} THEN v
    ELSE IF v.t = "str" THEN v.s ELSE v.n

\* row new is row old with the whitelisted fields of kw set as supplied
UpdatedBy(old, new, kw) ==
    \A f \in DOMAIN old :
        new[f] = IF f \in Whitelist \cap DOMAIN kw THEN Written(f, kw[f]) ELSE old[f]

\* C19: update_refined_segment(id, **kw) whose statement executes sets
\* exactly the whitelisted fields supplied on the row with that id and
\* returns True; keys outside the whitelist are not applied, the other
\* columns of the row and every other row are unchanged, no row is added;
\* with no whitelisted key it returns False and changes nothing.
C19_UpdateWhitelistOnly ==
    [][\A t \in Threads :
          (UpdateStep(t) /\ \A f \in DOMAIN loc[t].kw : loc[t].kw[f].t # "list")
          => /\ (Whitelist \cap DOMAIN loc[t].kw # {})
                    => /\ ret'[t].status = "ok" /\ ret'[t].val = 1
                       /\ \A r \in refined_segments :
                              r.id = loc[t].pk
                              => \E n \in refined_segments' :
                                     n.id = r.id /\ UpdatedBy(r, n, loc[t].kw)
                       /\ {r \in refined_segments' : r.id # loc[t].pk} =
                              {r \in refined_segments : r.id # loc[t].pk}
                       /\ {r.id : r \in refined_segments'} =
                              {r.id : r \in refined_segments}
                       /\ Cardinality(refined_segments') = Cardinality(refined_segments)
             /\ (Whitelist \cap DOMAIN loc[t].kw = {})
                    => /\ ret'[t].status = "ok" /\ ret'[t].val = 0
                       /\ refined_segments' = refined_segments
             /\ UNCHANGED <<sessions, speakers, raw_segments, segment_usage>>]_vars

\* an update with whitelisted and other keys was applied to a row: text and
\* start_time are the supplied ones, id, session and is_processing are not;
\* the caller's last update, without a whitelisted key, returned False
C19_Witness ==
    /\ \E r \in refined_segments :
           /\ r.text = <<"n">> /\ r.start_time = 75
           /\ r.is_processing = 0 /\ r.id # 9 /\ r.session_id = 1
    /\ \E r \in refined_segments : r.text = <<"m">>
    /\ ret[2] = [op |-> "update_refined_segment", status |-> "ok", val |-> 0]

\* the refined segments of the session with external id e that are locked
LockedOf(refined, ses, e) ==
    {r \in refined : /\ r.is_locked = 1
                     /\ \E se \in ses : se.id = r.session_id /\ se.session_id = e}

Limits == {PyNone, PyInt(0), PyInt(1), PyInt(2)}

\* q lists, without repetition and in descending start_time order, rows of
\* locked: all of them, or with a limit n >= 1 the n (or fewer) of greatest
\* start_time
LockedResult(q, locked, limit) ==
    /\ \A i \in DOMAIN q : \E r \in locked :
           /\ q[i].id = r.id /\ q[i].start_time = r.start_time
           /\ q[i].text = r.text /\ q[i].is_locked = 1
    /\ \A i, j \in DOMAIN q : i < j => q[i].id # q[j].id
    /\ \A i, j \in DOMAIN q : i < j => q[i].start_time >= q[j].start_time
    /\ IF limit.t = "int" /\ limit.n >= 1
       THEN /\ Len(q) = IF limit.n < Cardinality(locked) THEN limit.n
                        ELSE Cardinality(locked)
            /\ \A r \in locked :
                   (\A i \in DOMAIN q : q[i].id # r.id)
                   => \A i \in DOMAIN q : q[i].start_time >= r.start_time
       ELSE Len(q) = Cardinality(locked)

\* C20: get_locked_segments(session, limit) returns exactly the session's
\* refined segments with is_locked = 1, in descending start_time order, with
\* a limit n >= 1 the n of greatest start_time; a segment is returned after
\* update_refined_segment(id, is_locked=True) and no longer after
\* update_refined_segment(id, is_locked=False).
C20_LockedSegments ==
    [][/\ \A e \in ExtIds :
              \A locked \in {LockedOf(refined_segments', sessions', e)} :
                  \A limit \in Limits :
                      \A res \in {GetLockedSegments(e, limit)'} :
                          /\ res # {}
                          /\ \A q \in res : LockedResult(q, locked, limit)
       /\ \A t \in Threads : \A r \in refined_segments : \A se \in sessions :
              (UpdateStep(t) /\ r.id = loc[t].pk /\ se.id = r.session_id)
              => /\ (loc[t].kw = Lock)
                        => \A q \in GetLockedSegments(se.session_id, PyNone)' :
                               \E i \in DOMAIN q : q[i].id = r.id
                 /\ (loc[t].kw = Unlock)
                        => \A q \in GetLockedSegments(se.session_id, PyNone)' :
                               \A i \in DOMAIN q : q[i].id # r.id]_vars

\* two segments of "s1" are locked, the cap 1 returns the later one only;
\* the caller's last update unlocked or locked a segment
C20_Witness ==
    /\ \E a, b \in LockedOf(refined_segments, sessions, S1) :
           /\ a.start_time > b.start_time
           /\ \A q \in GetLockedSegments(S1, PyInt(1)) : Len(q) = 1 /\ q[1].id = a.id
           /\ \A q \in GetLockedSegments(S1, PyNone) : Len(q) = 2
    /\ ret[2] = [op |-> "update_refined_segment", status |-> "ok", val |-> 1]

(***************************************************************************)
(* Properties of get_refined_segments and get_refined_segment              *)
(***************************************************************************)
\* the refined segments stored under the key of the session with external
\* id e
RefinedOf(e) ==
    {r \in refined_segments :
        \E se \in sessions : se.id = r.session_id /\ se.session_id = e}

\* the refined segments stored under the key of any session
RefinedOfSessions ==
    {r \in refined_segments : \E se \in sessions : se.id = r.session_id}

\* q lists each row of rows once, with its text, times and its session's
\* external id, in ascending start_time order
ListsAscending(q, rows) ==
    /\ Len(q) = Cardinality(rows)
    /\ {q[i].id : i \in DOMAIN q} = {r.id : r \in rows}
    /\ \A i \in DOMAIN q : \E r \in rows : \E se \in sessions :
           /\ q[i].id = r.id /\ q[i].text = r.text
           /\ q[i].start_time = r.start_time /\ q[i].end_time = r.end_time
           /\ se.id = r.session_id /\ q[i].session_id = se.session_id
    /\ \A i, j \in DOMAIN q : i < j => q[i].start_time <= q[j].start_time

\* C21: get_refined_segments(session) returns all and only the refined
\* segments of that session, get_refined_segments() those of all sessions,
\* in ascending start_time order.
C21_RefinedListing ==
    /\ \A e \in ExtIds :
           \A res \in {ListRefinedSegments(PyStr(e))} :
               /\ res # {}
               /\ \A q \in res : ListsAscending(q, RefinedOf(e))
    /\ \A res \in {ListRefinedSegments(PyNone)} :
           /\ res # {}
           /\ \A q \in res : ListsAscending(q, RefinedOfSessions)

\* "s1" has two refined segments, the one inserted second starts first and
\* is listed first
C21_Witness ==
    /\ \E a, b \in RefinedOf(S1) :
           /\ a.id < b.id /\ a.start_time > b.start_time
           /\ \A q \in ListRefinedSegments(PyStr(S1)) :
                  Len(q) = 2 /\ q[1].id = b.id /\ q[2].id = a.id
    /\ ret[1] = [op |-> "insert_refined_segment", status |-> "ok", val |-> 2]

\* C22: get_refined_segment(id) returns the refined segment with that id,
\* with its current text, start_time, end_time, confidence_score,
\* source_segments, metadata and its session's external id, whichever form of
\* session reference inserted it, and returns nothing exactly when no refined
\* segment has that id.
C22_SegmentById ==
    \A id \in 1..MaxRefined :
        /\ (GetRefinedSegment(id) = {}) <=> (\A r \in refined_segments : r.id # id)
        /\ \A r \in refined_segments : \A d \in GetRefinedSegment(id) :
               r.id = id
               => /\ d.text = r.text /\ d.start_time = r.start_time
                  /\ d.end_time = r.end_time
                  /\ d.confidence_score = r.confidence_score
                  /\ d.source_segments = r.source_segments
                  /\ d.metadata = r.metadata
                  /\ \E se \in sessions :
                         se.id = r.session_id /\ d.session_id = se.session_id

\* C23: while a refined segment is locked, update_refined_segment does not
\* change its text, start_time, end_time, confidence_score or
\* source_segments.
C23_LockedIsFinal ==
    [][\A t \in Threads : \A r \in refined_segments :
          (UpdateStep(t) /\ r.is_locked = 1)
          => \E n \in refined_segments' :
                 /\ n.id = r.id /\ n.text = r.text
                 /\ n.start_time = r.start_time /\ n.end_time = r.end_time
                 /\ n.confidence_score = r.confidence_score
                 /\ n.source_segments = r.source_segments]_vars

(***************************************************************************)
(* Properties of the stored rows                                           *)
(***************************************************************************)
\* C24: the session_id of every raw segment and of every refined segment is
\* the key of an existing session row, whichever form of session reference
\* was passed to insert_segment or insert_refined_segment.
C24_SessionKeysExist ==
    /\ \A rs \in raw_segments : \E se \in sessions : se.id = rs.session_id
    /\ \A r \in refined_segments : \E se \in sessions : se.id = r.session_id

\* C25: no step of get_or_create_session, get_or_create_speaker,
\* insert_segment, insert_refined_segment or update_refined_segment deletes
\* or changes a session, speaker or raw segment row: every row is still
\* there after the step, and no other row takes its id.
C25_AppendOnly ==
    [][/\ \A se \in sessions :
              se \in sessions' /\ \A n \in sessions' : n.id = se.id => n = se
       /\ \A sp \in speakers :
              sp \in speakers' /\ \A n \in speakers' : n.id = sp.id => n = sp
       /\ \A rs \in raw_segments :
              rs \in raw_segments' /\ \A n \in raw_segments' : n.id = rs.id => n = rs]_vars

\* two sessions, a speaker and a raw segment are stored, a refined segment
\* was inserted and updated afterwards
C25_Witness ==
    /\ Cardinality(sessions) = 2 /\ speakers # {} /\ raw_segments # {}
    /\ \E r \in refined_segments : r.text = <<"n">>
    /\ ret[2] = [op |-> "update_refined_segment", status |-> "ok", val |-> 1]

(***************************************************************************)
(* Properties of the calls when the storage cannot be opened               *)
(***************************************************************************)
\* C26: when the connection cannot be obtained, get_unrefined_segments,
\* get_used_segment_ids and get_active_sessions return an empty result and
\* get_refined_segment returns None; none of them raises, and nothing is
\* stored.
C26_ReadsDegrade ==
    [][\A t \in Threads :
          (/\ ConnectFails(t)
           /\ loc[t].op \in {"get_unrefined_segments", "get_used_segment_ids",
                             "get_active_sessions", "get_refined_segment"})
          => /\ ret'[t].op = loc[t].op
             /\ ret'[t].status = "ok"
             /\ ret'[t].val = {}
             /\ UNCHANGED tables]_vars

\* usage records, an active session and the refined segment 1 are stored,
\* and the caller's query came back empty
C26_Witness ==
    /\ segment_usage # {} /\ GetRefinedSegment(1) # {}
    /\ GetUnrefinedSegments(PyStr(S1)) # {}
    /\ ret[2].op \in {"get_unrefined_segments", "get_used_segment_ids",
                      "get_refined_segment"}
    /\ ret[2].status = "ok"
    /\ ret[2].val = {}

\* C27: when the connection cannot be obtained, get_or_create_session,
\* get_or_create_speaker, insert_segment, insert_refined_segment,
\* get_refined_segments and get_locked_segments end with the error, not with
\* a value, and the call has stored nothing: no table changes in the step and
\* no nested call has resolved the session before.
C27_WritesSurface ==
    [][\A t \in Threads :
          (/\ ConnectFails(t)
           /\ loc[t].op \in {"get_or_create_session", "get_or_create_speaker",
                             "insert_segment", "insert_refined_segment",
                             "get_refined_segments", "get_locked_segments"})
          => /\ ret'[t].op = loc[t].op
             /\ ret'[t].status = "error"
             /\ UNCHANGED tables
             /\ (loc[t].op \in {"insert_segment", "insert_refined_segment"}
                     /\ loc[t].sref.t = "str")
                    => loc[t].pk = 0]_vars

\* insert_segment("s1", ...) ended with the error: no session and no raw
\* segment were stored
C27_Witness ==
    /\ ret[1] = [op |-> "insert_segment", status |-> "error", val |-> 0]
    /\ sessions = {} /\ raw_segments = {}
    /\ ret[2].op = "get_refined_segments" /\ ret[2].status = "error"

(***************************************************************************)
(* Properties of init_db and migrate_database_schema                       *)
(***************************************************************************)
\* caller t executes init_db or migrate_database_schema in this step
SchemaDone(t) == pc[t] = "schema" /\ pc'[t] = "idle"

\* the store is migrated: the five tables, both session_id columns INTEGER,
\* the is_locked column
Migrated(sch) ==
    /\ {"sessions", "speakers", "raw_segments", "refined_segments", "segment_usage"}
           \subseteq sch.tables
    /\ sch.raw = "INTEGER" /\ sch.refined = "INTEGER" /\ sch.is_locked

\* C28: init_db or migrate_database_schema on a store that is initialised
\* and migrated raises no error, adds no table, column or index and leaves
\* every row unchanged; a call that succeeds leaves the store migrated
\* (init_db: initialised), so that the next call finds it so.
C28_SchemaSetupIdempotent ==
    [][\A t \in Threads :
          SchemaDone(t)
          => /\ (Migrated(schema) /\ (loc[t].op = "init_db" => schema = Initialised))
                    => /\ ret'[t].status = "ok"
                       /\ schema' = schema
                       /\ UNCHANGED tables
             /\ ret'[t].status = "ok"
                    => /\ Migrated(schema')
                       /\ loc[t].op = "init_db" => schema' = Initialised]_vars

\* migrate_database_schema and init_db have both returned on a store with
\* rows, which is initialised
C28_Witness ==
    /\ ret[1] = [op |-> "migrate_database_schema", status |-> "ok", val |-> 0]
    /\ ret[2] = [op |-> "init_db", status |-> "ok", val |-> 0]
    /\ raw_segments # {} /\ refined_segments # {}
    /\ schema = Initialised

\* the text is an integer literal
IsLiteral(v) == v # <<>> /\ \A i \in DOMAIN v : IsDigit(v[i])

\* row new is row old with the session_id the migration is to give it: the
\* key of the session with that external id, else the integer of the
\* literal; everything else, is_locked apart, as it was
MigratedFrom(old, new, ses) ==
    /\ new.id = old.id
    /\ \A f \in DOMAIN old \ {"session_id"} : new[f] = old[f]
    /\ \A se \in ses : se.session_id = old.session_id => new.session_id = se.id
    /\ ((\A se \in ses : se.session_id # old.session_id) /\ IsLiteral(old.session_id))
           => new.session_id = CastInteger(old.session_id)

\* the text neither is a session's external id nor an integer literal
IsJunk(v, ses) == (\A se \in ses : se.session_id # v) /\ ~IsLiteral(v)

\* C29: migrate_database_schema on a store whose session_id columns hold
\* text rebuilds raw_segments and refined_segments: every row keeps its id
\* and its other columns, a row whose value is a session's external id gets
\* that session's key, a row with no such session whose value is an integer
\* literal gets that integer; no row is lost or added.
C29_LegacyRowsMapped ==
    [][\A t \in Threads :
          SchemaDone(t)
          => /\ (/\ schema.raw = "TEXT"
                 /\ \E r \in raw_segments : ~IsJunk(r.session_id, sessions))
                    => /\ schema'.raw = "INTEGER"
                       /\ Cardinality(raw_segments') = Cardinality(raw_segments)
                       /\ \A r \in raw_segments : \E n \in raw_segments' :
                              MigratedFrom(r, n, sessions)
             /\ (/\ schema.refined = "TEXT"
                 /\ \E r \in refined_segments : ~IsJunk(r.session_id, sessions))
                    => /\ schema'.refined = "INTEGER"
                       /\ Cardinality(refined_segments') = Cardinality(refined_segments)
                       /\ \A r \in refined_segments : \E n \in refined_segments' :
                              MigratedFrom(r, n, sessions)]_vars

\* C30: a raw segment whose text session_id is junk does not make the
\* migration fail: the call returns, the table is rebuilt with every row,
\* and the junk row has an integer session_id.
C30_JunkGetsSentinel ==
    [][\A t \in Threads :
          (/\ SchemaDone(t)
           /\ schema.raw = "TEXT"
           /\ \E r \in raw_segments : IsJunk(r.session_id, sessions))
          => /\ ret'[t].status = "ok"
             /\ schema'.raw = "INTEGER"
             /\ {n.id : n \in raw_segments'} = {r.id : r \in raw_segments}
             /\ \A n \in raw_segments' : n.session_id \in Nat]_vars

\* C31: a call of migrate_database_schema or init_db that fails has swapped
\* no table: the error reaches the caller, raw_segments and refined_segments
\* both exist with the session_id type they had before the call, and the raw
\* segments are the ones of before the call.
C31_FailedMigrationAborted ==
    [][\A t \in Threads :
          (SchemaDone(t) /\ ret'[t].status = "error")
          => /\ {"raw_segments", "refined_segments"} \subseteq schema'.tables
             /\ schema'.raw = schema.raw
             /\ schema'.refined = schema.refined
             /\ raw_segments' = raw_segments]_vars

\* C32: migrate_database_schema (alone or from init_db) on a store whose
\* refined_segments has no is_locked column adds the column; every refined
\* segment is still there with is_locked = 0 and its other columns as they
\* were (session_id too when the column is INTEGER already).
C32_IsLockedAdded ==
    [][\A t \in Threads :
          (SchemaDone(t) /\ ~schema.is_locked)
          => /\ schema'.is_locked
             /\ Cardinality(refined_segments') = Cardinality(refined_segments)
             /\ \A r \in refined_segments : \E n \in refined_segments' :
                    /\ n.id = r.id
                    /\ "is_locked" \in DOMAIN n
                    /\ n.is_locked = 0
                    /\ \A f \in DOMAIN r \ {"session_id"} : n[f] = r[f]
                    /\ schema.refined = "INTEGER" => n.session_id = r.session_id]_vars

\* migrate_database_schema has returned and the store has a refined segment
\* with the column and is_locked = 0: the store had no such column before
C32_Witness ==
    /\ ret[1] = [op |-> "migrate_database_schema", status |-> "ok", val |-> 0]
    /\ schema.is_locked
    /\ \E r \in refined_segments : "is_locked" \in DOMAIN r /\ r.is_locked = 0

(***************************************************************************)
(* Properties of the connection                                            *)
(***************************************************************************)
\* C33: every call of a store operation returns, with a result or with an
\* error, whatever lock another connection holds and however long it holds
\* it, the nested get_or_create_session of the inserts included.
C33_EveryCallReturns ==
    \A t \in Threads : (pc[t] # "idle") ~> (pc[t] = "idle")

\* insert_segment('s1', ...) has created the session, then found the
\* database locked and raised, while the lock is still held
C33_Witness ==
    /\ db.lock # "none"
    /\ ret[1] = [op |-> "insert_segment", status |-> "error", val |-> 0]
    /\ \E se \in sessions : se.session_id = S1
    /\ raw_segments = {}

\* C34: every open connection is the connection of a call in progress: a
\* call that has returned or raised has left none open.
C34_NoConnectionLeftOpen ==
    db.open <= InUse(1) + InUse(2)

\* the value update_refined_segment gives for False
ReturnsFalse == [op |-> "update_refined_segment", status |-> "ok", val |-> 0]

\* the UPDATE cannot be executed: a whitelisted key has a value sqlite3
\* cannot bind
StatementFails(kw) == \E f \in DOMAIN kw \cap Whitelist : kw[f].t = "list"

\* C35: update_refined_segment never raises; when the storage cannot be
\* opened or the UPDATE fails it returns False and changes no row, which is
\* also what it returns when no key is whitelisted.
C35_UpdateFailureIsFalse ==
    [][\A t \in Threads :
          UpdateStep(t)
          => /\ ret'[t].status = "ok"
             /\ (\/ ConnectFails(t)
                 \/ StatementFails(loc[t].kw)
                 \/ DOMAIN loc[t].kw \cap Whitelist = {})
                    => (ret'[t] = ReturnsFalse /\ UNCHANGED tables)]_vars

\* the update of caller 1, all of whose keys are whitelisted, was lost to the
\* storage; the one of caller 2 was rejected or could not be bound; both
\* callers hold the same result and segment 1 is not locked
C35_Witness ==
    /\ ret[1] = ReturnsFalse
    /\ ret[2] = ReturnsFalse
    /\ \E r \in refined_segments : r.id = 1 /\ r.is_locked = 0

(***************************************************************************)
(* Properties of process_event                                             *)
(***************************************************************************)
\* caller t executes one iteration of the loop over the event's segments
SegmentStep(t) ==
    pc[t] = "event_segment" /\ loc[t].segments # <<>> /\ loc'[t] # loc[t]

\* caller t executes a statement of process_event that comes before the loop
BeforeSegments(t) ==
    /\ loc[t].op = "process_event"
    /\ pc[t] \in {"event_start", "session_lookup", "session_insert"}
    /\ pc'[t] # pc[t]

\* the segment has a speaker_id and a text, and the event a timestamp that
\* was parsed
CanBeProcessed(seg, ts) == seg.speaker_id.t # "null" /\ seg.text.t = "str" /\ ts = "iso"

\* new is the raw segment of seg under the session with external id e
RawSegmentOf(new, seg, e, ses) ==
    /\ new.text = seg.text.s
    /\ new.start_time = seg.start_time /\ new.end_time = seg.end_time
    /\ \E se \in ses : se.session_id = e /\ new.session_id = se.id

\* C36: each iteration of process_event keeps the raw segments there are and
\* goes on to the next segment; it adds exactly one raw segment, under the
\* event's session, when the segment can be processed and none when it
\* cannot. A timestamp that does not parse or is missing and a session_id
\* that is blank or no string raise before the loop, and no statement before
\* the loop stores a raw segment. After the last segment the call returns.
C36_EventSegmentsStored ==
    [][\A t \in Threads :
          /\ SegmentStep(t)
                => /\ pc'[t] = "event_segment"
                   /\ loc'[t].segments = Tail(loc[t].segments)
                   /\ raw_segments \subseteq raw_segments'
                   /\ IF CanBeProcessed(Head(loc[t].segments), loc[t].log_timestamp)
                      THEN /\ Cardinality(raw_segments') = Cardinality(raw_segments) + 1
                           /\ \A n \in raw_segments' \ raw_segments :
                                  /\ \A r \in raw_segments : n.id # r.id
                                  /\ RawSegmentOf(n, Head(loc[t].segments),
                                                  loc[t].sref.s, sessions')
                      ELSE raw_segments' = raw_segments
          /\ BeforeSegments(t)
                => /\ UNCHANGED raw_segments
                   /\ (pc[t] = "event_start" /\ loc[t].log_timestamp \in {"text", "absent"})
                          => (pc'[t] = "idle" /\ ret'[t].status = "error")
                   /\ (pc[t] = "session_lookup" /\ Blank(loc[t].sref))
                          => (pc'[t] = "idle" /\ ret'[t].status = "error")
                   /\ (pc[t] = "session_lookup" /\ loc[t].sref.t # "str")
                          => (pc'[t] = "idle" /\ ret'[t].status = "error")
          /\ (pc[t] = "event_segment" /\ loc[t].segments = <<>> /\ pc'[t] # pc[t])
                => /\ ret'[t] = [op |-> "process_event", status |-> "ok", val |-> 0]
                   /\ UNCHANGED raw_segments]_vars

\* process_event has returned: its first segment, of speaker 1, was skipped
\* after its speaker was stored, its second segment is stored under the
\* key of session s1
C36_Witness ==
    /\ ret[1] = [op |-> "process_event", status |-> "ok", val |-> 0]
    /\ \E sp \in speakers : sp.name = <<"S", "p", "e", "a", "k", "e", "r", " ", "1">>
    /\ \E r \in raw_segments :
           /\ r.text = <<"b">>
           /\ \E se \in sessions : se.session_id = S1 /\ r.session_id = se.id
    /\ \A r \in raw_segments : r.text # <<"a">>

(***************************************************************************)
(* Properties of the provenance records                                    *)
(***************************************************************************)
\* C37: for every usage record (r, R) refined segment R exists and r is one
\* of the ids its source_segments lists.
C37_ProvenanceConsistent ==
    \A u \in segment_usage :
        \E R \in refined_segments :
            /\ R.id = u.refined_segment_id
            /\ Names(R.source_segments, u.raw_segment_id)

\* C38: every usage record links rows that exist: a raw segment with its
\* raw_segment_id and a refined segment with its refined_segment_id, both of
\* the same session.
C38_UsageLinksExistingRows ==
    \A u \in segment_usage :
        \E rs \in raw_segments : \E R \in refined_segments :
            /\ rs.id = u.raw_segment_id
            /\ R.id = u.refined_segment_id
            /\ R.session_id = rs.session_id

\* C39: update_refined_segment with a whitelisted key, values that can be
\* bound and an id no refined segment has returns True; it creates no
\* refined segment and changes no row of any table.
C39_MissingIdReturnsTrue ==
    [][\A t \in Threads :
          (/\ UpdateStep(t)
           /\ DOMAIN loc[t].kw \cap Whitelist # {}
           /\ ~StatementFails(loc[t].kw)
           /\ \A r \in refined_segments : r.id # loc[t].pk)
          => /\ ret'[t] = [op |-> "update_refined_segment", status |-> "ok", val |-> 1]
             /\ UNCHANGED tables]_vars

\* update_refined_segment has returned True on a store that has no refined
\* segment, and never had one
C39_Witness ==
    /\ ret[2] = [op |-> "update_refined_segment", status |-> "ok", val |-> 1]
    /\ refined_segments = {}

=============================================================================
